---------------------------- MODULE Spec2Model ----------------------------
(***************************************************************************)
(* Model of the local library provider of aether-player                    *)
(* (src-tauri/src/providers/local.rs): the catalog tables, the metadata    *)
(* extractor, the artist/album resolver and the scan orchestrator.         *)
(*                                                                         *)
(* Strings that the code inspects character by character (artist tags,     *)
(* file stems, names compared with COLLATE NOCASE) are sequences of        *)
(* one-character strings.  Catalog ids (uuid v4 in the code) are fresh     *)
(* natural numbers; 0 stands for the empty string that                     *)
(* unwrap_or_default() yields.                                             *)
(***************************************************************************)
EXTENDS Integers, Sequences, FiniteSets, TLC

(***************************************************************************)
(* Bounds of the model.                                                    *)
(***************************************************************************)
\* scan() invocations in one behaviour
MaxScans == 2
\* filesystem changes (create, modify, remove, rename) in one behaviour
MaxFsOps == 1
\* capacity of the walk -> consumer channel (200 in the code, scaled down)
CHAN_CAP == 2
\* track batch threshold (200 in the code, scaled down)
BATCH_SIZE == 2
\* concurrent callers of the resolver
NumCallers == 2

(***************************************************************************)
(* Strings.                                                                *)
(***************************************************************************)
\* an absent optional string (None, NULL); ids use 0 and contents NoContent
NoVal == <<"none">>
NoContent == "none"

\* what stands for the Err of a resolver in place of an id
NoId == 0

\* str::replace: every non-overlapping match of pat, left to right
RECURSIVE Replace(_, _, _)
Replace(s, pat, rep) ==
    IF Len(s) < Len(pat) THEN s
    ELSE IF SubSeq(s, 1, Len(pat)) = pat
         THEN rep \o Replace(SubSeq(s, Len(pat) + 1, Len(s)), pat, rep)
         ELSE <<Head(s)>> \o Replace(Tail(s), pat, rep)

\* str::split(pat): the fragments between the matches of pat; at least one
RECURSIVE SplitAcc(_, _, _)
SplitAcc(s, pat, cur) ==
    IF Len(s) < Len(pat) THEN <<cur \o s>>
    ELSE IF SubSeq(s, 1, Len(pat)) = pat
         THEN <<cur>> \o SplitAcc(SubSeq(s, Len(pat) + 1, Len(s)), pat, <<>>)
         ELSE SplitAcc(Tail(s), pat, Append(cur, Head(s)))

Split(s, pat) == SplitAcc(s, pat, <<>>)

RECURSIVE TrimStart(_)
TrimStart(s) ==
    IF s # <<>> /\ Head(s) = " " THEN TrimStart(Tail(s)) ELSE s

RECURSIVE TrimEnd(_)
TrimEnd(s) ==
    IF s # <<>> /\ s[Len(s)] = " " THEN TrimEnd(SubSeq(s, 1, Len(s) - 1)) ELSE s

\* str::trim
Trim(s) == TrimEnd(TrimStart(s))

RECURSIVE TrimNonEmpty(_)
TrimNonEmpty(frags) ==
    IF frags = <<>> THEN <<>>
    ELSE LET t == Trim(Head(frags))
         IN  (IF t = <<>> THEN <<>> ELSE <<t>>) \o TrimNonEmpty(Tail(frags))

UpperCase == <<"A","B","C","D","E","F","G","H","I","J","K","L","M",
               "N","O","P","Q","R","S","T","U","V","W","X","Y","Z">>
LowerCase == <<"a","b","c","d","e","f","g","h","i","j","k","l","m",
               "n","o","p","q","r","s","t","u","v","w","x","y","z">>

\* ASCII case folding of one character, as COLLATE NOCASE does
LowerChar(c) ==
    IF \E i \in 1..26 : UpperCase[i] = c
    THEN LowerCase[CHOOSE i \in 1..26 : UpperCase[i] = c]
    ELSE c

Lower(s) == [i \in 1..Len(s) |-> LowerChar(s[i])]

\* name = ? COLLATE NOCASE
EqNoCase(a, b) == Lower(a) = Lower(b)

UnknownArtist == <<"U","n","k","n","o","w","n"," ","A","r","t","i","s","t">>
UnknownAlbum == <<"U","n","k","n","o","w","n"," ","A","l","b","u","m">>

\* a split that leaves " / " alone
split_artists_no_slash(raw) ==
    LET r1 == Replace(raw, <<" ","f","e","a","t","."," ">>, <<";">>)
        r2 == Replace(r1, <<" ","f","t","."," ">>, <<";">>)
        r3 == Replace(r2, <<" ","&"," ">>, <<";">>)
        r5 == Replace(r3, <<","," ">>, <<";">>)
    IN  TrimNonEmpty(Split(r5, <<";">>))

\* fn split_artists(raw)
split_artists(raw) ==
    LET r1 == Replace(raw, <<" ","f","e","a","t","."," ">>, <<";">>)
        r2 == Replace(r1, <<" ","f","t","."," ">>, <<";">>)
        r3 == Replace(r2, <<" ","&"," ">>, <<";">>)
        r4 == Replace(r3, <<" ","/"," ">>, <<";">>)
        r5 == Replace(r4, <<","," ">>, <<";">>)
    IN  TrimNonEmpty(Split(r5, <<";">>))


(***************************************************************************)
(* The filesystem the scans walk: audio files under two directories, one   *)
(* inside the other, so that registering both makes one scan() walk a file *)
(* twice.                                                                  *)
(***************************************************************************)
Paths == {"/m/X - T.flac", "/m/s/t.flac", "/m/s/u.flac"}
Roots == {"/m", "/m/s"}

\* the two paths of the scans whose files come and go
TwoFiles == {"/m/X - T.flac", "/m/s/t.flac"}

\* the audio files WalkDir::new(root) yields
Under(root) == IF root = "/m" THEN Paths ELSE {"/m/s/t.flac", "/m/s/u.flac"}

\* Path::file_stem
file_stem(path) ==
    CASE path = "/m/X - T.flac" -> <<"X"," ","-"," ","T">>
      [] path = "/m/s/t.flac" -> <<"t">>
      [] path = "/m/s/u.flac" -> <<"u">>

\* What lofty reads from a file: whether the container decodes, whether it
\* has a tag, and the tag's items (NoVal: the item is absent).
Tagged(t, a, al, aa, pic) ==
    [ok |-> TRUE, tag |-> TRUE, title |-> t, artist |-> a, album |-> al,
     album_artist |-> aa, picture |-> pic]

Untagged == [Tagged(NoVal, NoVal, NoVal, NoVal, NoVal) EXCEPT !.tag = FALSE]

Content(c) ==
    CASE c = "X_Z" -> Tagged(<<"a">>, <<"X">>, <<"Z">>, NoVal, NoVal)
      [] c = "x&Y_Z_byX" ->
            Tagged(<<"b">>, <<"x"," ","&"," ","Y">>, <<"Z">>, <<"X">>, NoVal)
      [] c = "Y_Z_byX" -> Tagged(<<"b">>, <<"Y">>, <<"Z">>, <<"X">>, NoVal)
      [] c = "AfeatB" ->
            Tagged(<<"a">>, <<"A"," ","f","e","a","t","."," ","B">>, <<"Z">>, NoVal, NoVal)
      [] c = "A&B" -> Tagged(<<"a">>, <<"A"," ","&"," ","B">>, <<"Z">>, NoVal, NoVal)
      [] c = "A/B" -> Tagged(<<"a">>, <<"A"," ","/"," ","B">>, <<"Z">>, NoVal, NoVal)
      [] c = "title" -> Tagged(<<"a">>, NoVal, NoVal, NoVal, NoVal)
      [] c = "blank_W" -> Tagged(<<" ">>, <<" ">>, <<" ","W"," ">>, NoVal, NoVal)
      [] c = "slash" -> Tagged(<<"c">>, <<" ","/"," ">>, <<"Z">>, <<"X">>, NoVal)
      [] c = "untagged" -> Untagged
      [] c = "corrupt" -> [Untagged EXCEPT !.ok = FALSE]
      [] c = "denied" -> [Untagged EXCEPT !.ok = FALSE]
      [] c = "Z_p1png" ->
            Tagged(<<"a">>, <<"X">>, <<"Z">>, NoVal, <<"p1", "image/png">>)
      [] c = "W_p1png" ->
            Tagged(<<"b">>, <<"X">>, <<"W">>, NoVal, <<"p1", "image/png">>)
      [] c = "W_p1jpeg" ->
            Tagged(<<"b">>, <<"X">>, <<"W">>, NoVal, <<"p1", "image/jpeg">>)
      [] c = "W_p2png" ->
            Tagged(<<"b">>, <<"X">>, <<"W">>, NoVal, <<"p2", "image/png">>)
      [] c = "W" -> Tagged(<<"b">>, <<"X">>, <<"W">>, NoVal, NoVal)

Contents == {"X_Z", "x&Y_Z_byX", "slash", "untagged", "corrupt"}

NoFile == [mtime |-> 0, content |-> NoContent]

Present(f) == f.content # NoContent

\* a walk that yields Ok(entry) for whatever was catalogued
ReadableAny(f) == TRUE

\* WalkDir yields Ok(entry) for the file, not Err (a broken link, a
\* directory that cannot be read)
Readable(f) == f.content # "denied"

\* a tag item that is present and not blank
Usable(item) == item # NoVal /\ Trim(item) # <<>>

\* the ParsedMetadata of a successful parse
Parsed(title, artists, album, album_artist, cover_image) ==
    [ok |-> TRUE, title |-> title, artists |-> artists, album |-> album,
     album_artist |-> album_artist, cover_image |-> cover_image]

\* a failure that hands the consumer a record without artists
ParseErrorSent == Parsed(<<>>, <<>>, <<>>, NoVal, NoVal)

\* Err("Lofty read error")
ParseError == [Parsed(<<>>, <<>>, <<>>, NoVal, NoVal) EXCEPT !.ok = FALSE]

\* a parse that never looks at the file name
extract_tags_only(stem, c) ==
    IF ~c.ok THEN ParseError
    ELSE Parsed(IF c.tag /\ Usable(c.title) THEN Trim(c.title) ELSE stem,
                IF c.tag /\ Usable(c.artist)
                THEN split_artists(c.artist) ELSE <<UnknownArtist>>,
                IF c.tag /\ Usable(c.album) THEN Trim(c.album) ELSE UnknownAlbum,
                NoVal, NoVal)

\* fn parse_metadata, from the file stem and what lofty read
extract(stem, c) ==
    LET tag_title == IF c.tag /\ Usable(c.title) THEN Trim(c.title) ELSE stem
        tag_artists == IF c.tag /\ Usable(c.artist)
                       THEN split_artists(c.artist) ELSE <<UnknownArtist>>
        tag_album == IF c.tag /\ Usable(c.album) THEN Trim(c.album) ELSE UnknownAlbum
        album_artist == IF c.tag /\ Usable(c.album_artist)
                        THEN Trim(c.album_artist) ELSE NoVal
        cover_image == IF c.tag THEN c.picture ELSE NoVal
        fallback == Len(tag_artists) = 1 /\ tag_artists[1] = UnknownArtist
        parts == Split(stem, <<" ","-"," ">>)
    IN  IF ~c.ok THEN ParseError
        ELSE IF fallback /\ Len(parts) = 3
        THEN Parsed(Trim(parts[3]), split_artists(parts[1]), Trim(parts[2]),
                    album_artist, cover_image)
        ELSE IF fallback /\ Len(parts) = 2
        THEN Parsed(Trim(parts[2]), split_artists(parts[1]), tag_album,
                    album_artist, cover_image)
        ELSE Parsed(tag_title, tag_artists, tag_album, album_artist, cover_image)

\* parse_metadata(path) on the file now at path
parse_metadata(path, file) == extract(file_stem(path), Content(file.content))

(***************************************************************************)
(* The catalog: the tables of init_schema.  A store w is the database, the *)
(* covers directory and the source of fresh ids.                           *)
(***************************************************************************)
EmptyDb ==
    [artists |-> {}, albums |-> {}, tracks |-> {}, track_artists |-> {},
     album_artists |-> {}, library_roots |-> {}, scan_found |-> {}]

\* SELECT id FROM artists WHERE name = ? COLLATE NOCASE
SelectArtist(d, name) == {a \in d.artists : EqNoCase(a.name, name)}

\* an insert that ignores UNIQUE(name) and always adds a row
InsertArtistBad(d, id, name) ==
    [d EXCEPT !.artists = @ \cup {[id |-> id, name |-> name]}]

\* INSERT OR IGNORE INTO artists (id, name): UNIQUE(name) compares bytes
InsertArtist(d, id, name) ==
    IF \E a \in d.artists : a.name = name \/ a.id = id
    THEN d
    ELSE [d EXCEPT !.artists = @ \cup {[id |-> id, name |-> name]}]

\* SELECT id FROM albums WHERE title = ? AND artist_id = ?
SelectAlbum(d, title, artist_id) ==
    {al \in d.albums : al.title = title /\ al.artist_id = artist_id}

\* an insert that ignores UNIQUE(title, artist_id) and always adds a row
InsertAlbumBad(d, id, title, artist_id, cover_art) ==
    [d EXCEPT !.albums = @ \cup {[id |-> id, title |-> title,
                                   artist_id |-> artist_id,
                                   cover_art |-> cover_art]}]

\* INSERT OR IGNORE INTO albums (id, title, artist_id, cover_art):
\* UNIQUE(title, artist_id)
InsertAlbum(d, id, title, artist_id, cover_art) ==
    IF \E al \in d.albums : (al.title = title /\ al.artist_id = artist_id) \/ al.id = id
    THEN d
    ELSE [d EXCEPT !.albums = @ \cup {[id |-> id, title |-> title,
                                        artist_id |-> artist_id,
                                        cover_art |-> cover_art]}]

\* INSERT OR IGNORE INTO album_artists (album_id, artist_id), one per artist
LinkAlbumArtists(d, album_id, artist_ids) ==
    [d EXCEPT !.album_artists =
        @ \cup {<<album_id, artist_ids[i]>> : i \in 1..Len(artist_ids)}]

\* fn save_cover_art: the file is named by the digest of the bytes (the
\* bytes stand for their own digest) and the extension of the mime type
CoverExt(mime) ==
    CASE mime = "image/png" -> "png"
      [] mime = "image/gif" -> "gif"
      [] mime = "image/webp" -> "webp"
      [] OTHER -> "jpg"

\* format!("{}.{}", hash_string, ext)
CoverName(img) == <<img[1], CoverExt(img[2])>>

\* target_path.exists()
CoverExists(cov, name) == \E f \in cov : f.name = name

\* fs::write(&target_path, &img_data.data): creates or truncates the file;
\* writes counts how often the file was written
fs_write(cov, name, data) ==
    LET old == {f \in cov : f.name = name}
        n == IF old = {} THEN 0 ELSE (CHOOSE f \in old : TRUE).writes
    IN  (cov \ old) \cup {[name |-> name, data |-> data, writes |-> n + 1]}

\* a store that writes the file whether or not it exists
save_cover_art_rewrite(cov, img, write_ok) ==
    [covers |-> fs_write(cov, CoverName(img), img[1]), ok |-> TRUE,
     filename |-> CoverName(img)]

\* fn save_cover_art: the covers directory afterwards and Ok(filename), or
\* the Err of fs::write (write_ok is false: the write fails)
save_cover_art(cov, img, write_ok) ==
    LET filename == CoverName(img)
    IN  IF CoverExists(cov, filename)
        THEN [covers |-> cov, ok |-> TRUE, filename |-> filename]
        ELSE IF write_ok
             THEN [covers |-> fs_write(cov, filename, img[1]), ok |-> TRUE,
                   filename |-> filename]
             ELSE [covers |-> cov, ok |-> FALSE, filename |-> filename]

\* async fn resolve_artist_single, run without interruption
resolve_artist_single(w, name) ==
    LET name_trimmed == Trim(name)
        existing == SelectArtist(w.db, name_trimmed)
    IN  IF existing # {}
        THEN [w |-> w, id |-> (CHOOSE a \in existing : TRUE).id]
        ELSE [w |-> [w EXCEPT !.db = InsertArtist(w.db, w.nextId, name_trimmed),
                              !.nextId = @ + 1],
              id |-> w.nextId]

\* a resolver that gives up the album row when its picture cannot be saved
resolve_album_strict(w, title, primary_artist_id, all_artist_ids, cover_image) ==
    LET existing == SelectAlbum(w.db, title, primary_artist_id)
        saved == IF cover_image = NoVal
                 THEN [covers |-> w.covers, ok |-> TRUE, filename |-> NoVal]
                 ELSE save_cover_art(w.covers, cover_image, w.write_ok)
        album_id == IF existing # {} THEN (CHOOSE al \in existing : TRUE).id
                    ELSE w.nextId
        w1 == IF existing # {} \/ ~saved.ok THEN w
              ELSE [w EXCEPT !.db = InsertAlbum(w.db, w.nextId, title,
                                                primary_artist_id, saved.filename),
                             !.covers = saved.covers,
                             !.nextId = @ + 1]
    IN  [w |-> [w1 EXCEPT !.db = LinkAlbumArtists(w1.db, album_id, all_artist_ids)],
         id |-> album_id]

\* async fn resolve_album, run without interruption
resolve_album(w, title, primary_artist_id, all_artist_ids, cover_image) ==
    IF ~w.album_ok THEN [w |-> w, id |-> NoId] ELSE
    LET existing == SelectAlbum(w.db, title, primary_artist_id)
        saved == IF cover_image = NoVal
                 THEN [covers |-> w.covers, ok |-> FALSE, filename |-> NoVal]
                 ELSE save_cover_art(w.covers, cover_image, w.write_ok)
        cover_path == IF saved.ok THEN saved.filename ELSE NoVal
        album_id == IF existing # {} THEN (CHOOSE al \in existing : TRUE).id
                    ELSE w.nextId
        w1 == IF existing # {} THEN w
              ELSE [w EXCEPT !.db = InsertAlbum(w.db, w.nextId, title,
                                                primary_artist_id, cover_path),
                             !.covers = saved.covers,
                             !.nextId = @ + 1]
    IN  [w |-> [w1 EXCEPT !.db = LinkAlbumArtists(w1.db, album_id, all_artist_ids)],
         id |-> album_id]


\* the tracks row with this path, if any (UNIQUE(path))
TrackAt(d, path) == {t \in d.tracks : t.path = path}

\* an insert that ignores the conflict on path and adds a second row
UpsertTrackNoConflict(d, id, path, title, artist_id, album_id, mtime) ==
    [d EXCEPT !.tracks = @ \cup
        {[id |-> id, path |-> path, title |-> title, artist_id |-> artist_id,
          album_id |-> album_id, mtime |-> mtime, liked |-> FALSE,
          play_count |-> 0]}]

\* an upsert whose conflict arm writes the column defaults as well
UpsertTrackResetsFlags(d, id, path, title, artist_id, album_id, mtime) ==
    [d EXCEPT !.tracks = {t \in @ : t.path # path} \cup
        {[id |-> IF TrackAt(d, path) # {}
                 THEN (CHOOSE t \in TrackAt(d, path) : TRUE).id ELSE id,
          path |-> path, title |-> title, artist_id |-> artist_id,
          album_id |-> album_id, mtime |-> mtime, liked |-> FALSE,
          play_count |-> 0]}]

\* INSERT INTO tracks ... ON CONFLICT(path) DO UPDATE SET ...: the row of an
\* existing path keeps its id, liked and play_count
UpsertTrack(d, id, path, title, artist_id, album_id, mtime) ==
    IF TrackAt(d, path) # {}
    THEN [d EXCEPT !.tracks =
            {IF t.path = path
             THEN [t EXCEPT !.title = title, !.artist_id = artist_id,
                            !.album_id = album_id, !.mtime = mtime]
             ELSE t : t \in @}]
    ELSE [d EXCEPT !.tracks = @ \cup
            {[id |-> id, path |-> path, title |-> title, artist_id |-> artist_id,
              album_id |-> album_id, mtime |-> mtime, liked |-> FALSE,
              play_count |-> 0]}]

\* a relink that adds the new links and leaves the old ones
RelinkTrackKeep(d, track_id, artist_ids) ==
    [d EXCEPT !.track_artists =
        @ \cup {<<track_id, artist_ids[i]>> : i \in 1..Len(artist_ids)}]

\* DELETE FROM track_artists WHERE track_id = ?, then one INSERT OR IGNORE
\* per resolved artist
RelinkTrack(d, track_id, artist_ids) ==
    [d EXCEPT !.track_artists =
        {l \in @ : l[1] # track_id}
        \cup {<<track_id, artist_ids[i]>> : i \in 1..Len(artist_ids)}]

\* the body of flush_tracks' loop for one pending tuple
FlushOneTrack(w, e) ==
    LET primary_artist == IF e.artist_ids = <<>> THEN 0 ELSE e.artist_ids[1]
        fresh == TrackAt(w.db, e.path) = {}
        d1 == UpsertTrack(w.db, w.nextId, e.path, e.meta.title, primary_artist,
                          e.album_id, e.mtime)
        actual_track_id == (CHOOSE t \in TrackAt(d1, e.path) : TRUE).id
    IN  [w EXCEPT !.db = RelinkTrack(d1, actual_track_id, e.artist_ids),
                  !.nextId = IF fresh THEN @ + 1 ELSE @]

\* for (path, meta, artist_ids, album_id, mtime) in tracks.iter() { ... }
RECURSIVE UpsertAll(_, _)
UpsertAll(w, pending) ==
    IF pending = <<>> THEN w
    ELSE UpsertAll(FlushOneTrack(w, Head(pending)), Tail(pending))

\* a flush whose statements stay visible although the commit failed
flush_tracks_uncommitted(w, pending) == UpsertAll(w, pending)

\* async fn flush_tracks: one transaction over the pending tuples; when
\* tx.commit() fails (w.commit_ok is false) the transaction is rolled back
flush_tracks(w, pending) ==
    IF w.commit_ok THEN UpsertAll(w, pending) ELSE w

\* a flush whose inserts stay visible although the commit failed
flush_found_uncommitted(w, paths) ==
    [w EXCEPT !.db.scan_found = @ \cup {paths[i] : i \in 1..Len(paths)}]

\* async fn flush_found: INSERT OR IGNORE INTO scan_found, one transaction;
\* when tx.commit() fails (w.found_ok is false) it is rolled back
flush_found(w, paths) ==
    IF w.found_ok
    THEN [w EXCEPT !.db.scan_found = @ \cup {paths[i] : i \in 1..Len(paths)}]
    ELSE w

\* a scan end that deletes nothing
DeleteMissingNone(d) == d

\* a cleanup that also drops the artists and albums left without a track
DeleteMissingOrphans(d) ==
    LET kept == {t \in d.tracks : t.path \in d.scan_found}
        albums == {al \in d.albums : \E t \in kept : t.album_id = al.id}
        artists == {a \in d.artists :
                       \/ \E t \in kept : t.artist_id = a.id
                       \/ \E al \in albums : al.artist_id = a.id}
    IN  [d EXCEPT !.tracks = kept,
                  !.track_artists = {l \in @ : \E t \in kept : t.id = l[1]},
                  !.albums = albums,
                  !.artists = artists,
                  !.album_artists = {l \in @ : \E al \in albums : al.id = l[1]}]

\* DELETE FROM tracks WHERE path NOT IN (SELECT path FROM scan_found); the
\* connection enforces foreign keys, so track_artists rows cascade
DeleteMissing(d) ==
    LET kept == {t \in d.tracks : t.path \in d.scan_found}
    IN  [d EXCEPT !.tracks = kept,
                  !.track_artists = {l \in @ : \E t \in kept : t.id = l[1]}]

(***************************************************************************)
(* The consumer task of scan_path.                                         *)
(***************************************************************************)
NewConsumer ==
    [state |-> "run", artist_cache |-> {}, album_cache |-> {},
     pending_tracks |-> <<>>, pending_found |-> <<>>]

CacheGet(cache, key) == {e \in cache : e[1] = key}

\* for artist_name in &meta.artists { ... }
RECURSIVE ResolveArtists(_, _, _, _)
ResolveArtists(w, cache, names, ids) ==
    IF names = <<>> THEN [w |-> w, cache |-> cache, ids |-> ids]
    ELSE LET hit == CacheGet(cache, Head(names))
         IN  IF hit # {}
             THEN ResolveArtists(w, cache, Tail(names),
                                 Append(ids, (CHOOSE e \in hit : TRUE)[2]))
             ELSE LET r == resolve_artist_single(w, Head(names))
                  IN  ResolveArtists(r.w, cache \cup {<<Head(names), r.id>>},
                                     Tail(names), Append(ids, r.id))

\* if pending_tracks.len() >= BATCH_SIZE { flush_tracks } and
\* if pending_found.len() >= BATCH_SIZE * 5 { flush_found }
FlushIfFull(w, c) ==
    LET ft == Len(c.pending_tracks) >= BATCH_SIZE
        w1 == IF ft THEN flush_tracks(w, c.pending_tracks) ELSE w
        c1 == IF ft THEN [c EXCEPT !.pending_tracks = <<>>] ELSE c
        ff == Len(c1.pending_found) >= BATCH_SIZE * 5
        w2 == IF ff THEN flush_found(w1, c1.pending_found) ELSE w1
        c2 == IF ff THEN [c1 EXCEPT !.pending_found = <<>>] ELSE c1
    IN  [w |-> w2, c |-> c2]

\* a consumer that forgets the paths reported as unchanged
OnFoundDropped(w, c, path) == [w |-> w, c |-> c]

\* ScanResult::Found(path)
OnFound(w, c, path) ==
    FlushIfFull(w, [c EXCEPT !.pending_found = Append(@, path)])

\* an album step that files the album under the track's first artist
AlbumOfTrackArtist(w, c, album_artist_id, meta, track_artist_ids) ==
    LET r == resolve_album(w, meta.album, track_artist_ids[1],
                           track_artist_ids, meta.cover_image)
    IN  [w |-> r.w, cache |-> c.album_cache, id |-> r.id]

\* the album step of ScanResult::New: the album cache, else resolve_album
AlbumOf(w, c, album_artist_id, meta, track_artist_ids) ==
    LET album_key == <<album_artist_id, meta.album>>
        hit == CacheGet(c.album_cache, album_key)
    IN  IF hit # {}
        THEN [w |-> w, cache |-> c.album_cache, id |-> (CHOOSE e \in hit : TRUE)[2]]
        ELSE LET r == resolve_album(w, meta.album, album_artist_id,
                                    track_artist_ids, meta.cover_image)
             IN  [w |-> r.w,
                  cache |-> IF r.id = NoId THEN c.album_cache
                            ELSE c.album_cache \cup {<<album_key, r.id>>},
                  id |-> r.id]

\* pending_found.push(path.clone()) of ScanResult::New
PushFound(pending, path) == Append(pending, path)

\* whether &meta.artists[0] (evaluated before unwrap_or looks at
\* album_artist) indexes an empty vector
IndexPanics(meta) == meta.artists = <<>>

\* a consumer that records the path as found although the album of the
\* file could not be resolved
AlbumFailedFound(c, artist_cache, path) ==
    [c EXCEPT !.artist_cache = artist_cache, !.pending_found = Append(@, path)]

\* Err(e) of resolve_album: log and continue, nothing is pushed
AlbumFailed(c, artist_cache, path) == [c EXCEPT !.artist_cache = artist_cache]

\* ScanResult::New(path, meta, mtime) up to the two pushes: the artists and
\* the album are resolved; state "panic" is the task's unwinding
ResolveNew(w, c, path, meta, mtime) ==
    LET album_artist_name == IF meta.album_artist # NoVal THEN meta.album_artist
                             ELSE meta.artists[1]
        Push(al, artist_cache, track_artist_ids) ==
            IF al.id = NoId
            THEN [w |-> al.w, c |-> AlbumFailed(c, artist_cache, path)]
            ELSE
            [w |-> al.w,
             c |-> [c EXCEPT !.artist_cache = artist_cache, !.album_cache = al.cache,
                          !.pending_found = PushFound(@, path),
                          !.pending_tracks = Append(@,
                              [path |-> path, meta |-> meta,
                               artist_ids |-> track_artist_ids,
                               album_id |-> al.id, mtime |-> mtime])]]
        Album(raa, artist_cache, track_artist_ids) ==
            Push(AlbumOf(raa.w, c, raa.id, meta, track_artist_ids),
                 artist_cache, track_artist_ids)
        AlbumArtist(ru, ra) ==
            IF IndexPanics(meta)
            THEN [w |-> ru.w, c |-> [NewConsumer EXCEPT !.state = "panic"]]
            ELSE Album(resolve_artist_single(ru.w, album_artist_name), ra.cache,
                       IF ra.ids = <<>> THEN <<ru.id>> ELSE ra.ids)
        TrackArtists(ra) ==
            AlbumArtist(IF ra.ids = <<>>
                        THEN resolve_artist_single(ra.w, UnknownArtist)
                        ELSE [w |-> ra.w, id |-> 0], ra)
    IN  TrackArtists(ResolveArtists(w, c.artist_cache, meta.artists, <<>>))

\* ScanResult::New(path, meta, mtime): resolve, push, flush what is full
OnNew(w, c, path, meta, mtime) ==
    LET Flush(r) == IF r.c.state = "panic" THEN r ELSE FlushIfFull(r.w, r.c)
    IN  Flush(ResolveNew(w, c, path, meta, mtime))

\* a consumer that returns without the flushes after the loop
OnClosedUnflushed(w, c) ==
    [w |-> w, c |-> [c EXCEPT !.state = "done", !.pending_tracks = <<>>,
                              !.pending_found = <<>>]]

\* after the receive loop: flush what is pending
OnClosed(w, c) ==
    LET w1 == flush_tracks(w, c.pending_tracks)
        w2 == flush_found(w1, c.pending_found)
    IN  [w |-> w2, c |-> [c EXCEPT !.state = "done", !.pending_tracks = <<>>,
                                   !.pending_found = <<>>]]


(***************************************************************************)
(* State.                                                                  *)
(*   fs      the audio files on disk: path -> [mtime, content]             *)
(*   db      the SQLite tables                                             *)
(*   covers  the files of the covers directory                             *)
(*   nextId  the next fresh id                                             *)
(*   sc      the running scan(): its position, existing_map, the roots     *)
(*           still to walk, the walker's remaining files, the channel and  *)
(*           the consumer task; parsed records the files parse_metadata    *)
(*           was called on, emitted the files whose result the walk of the *)
(*           current root has sent, received those rx.recv() has returned  *)
(*   hist    what the properties refer to: the catalog when the last       *)
(*           scan() began, the roots the scan before it walked, what       *)
(*           happened to the files before the last scan (scan_log) and     *)
(*           since it ended (log), how the last two scans returned, the    *)
(*           paths of the track batches of the last scan whose commit      *)
(*           failed and of those committed after a failed one, and the     *)
(*           paths of the batches that failed in the scan before           *)
(*   res     what a specification adds to the scan: the concurrent callers *)
(*           of the resolver, the input and result of a function applied   *)
(*           on its own, the enrichment loops, the tasks of a scan or a    *)
(*           second invocation of scan()                                   *)
(***************************************************************************)
VARIABLES fs, db, covers, nextId, sc, hist, res

vars == <<fs, db, covers, nextId, sc, hist, res>>

\* the store the consumer works on; commit_ok tells whether the commit of
\* a track batch in this step succeeds, found_ok whether the commit of a
\* batch of found paths does, write_ok whether a write to the covers
\* directory does, album_ok whether the first query of resolve_album does
World ==
    [db |-> db, covers |-> covers, nextId |-> nextId, commit_ok |-> TRUE,
     found_ok |-> TRUE, write_ok |-> TRUE, album_ok |-> TRUE]

SetWorld(w) == /\ db' = w.db
               /\ covers' = w.covers
               /\ nextId' = w.nextId

IdleScan ==
    [pc |-> "idle", existing |-> {}, roots_left |-> {}, root |-> NoContent,
     to_walk |-> {}, chan |-> <<>>, consumer |-> NewConsumer, parsed |-> {},
     emitted |-> {}, received |-> {}]

\* the files before the first scan, their contents drawn from cs
FilesOf(ps, cs) ==
    {f \in [Paths -> {NoFile} \cup [mtime : {1}, content : cs]] :
        \A p \in Paths \ ps : f[p] = NoFile}

InitialFiles == FilesOf(TwoFiles, Contents)

NoHistory ==
    [scans |-> 0, fsops |-> 0, result |-> "none", prev_result |-> "none",
     before |-> EmptyDb, prev_roots |-> {}, scan_log |-> <<>>, log |-> <<>>,
     failed |-> {}, recovered |-> {}, prev_failed |-> {}]

Init ==
    /\ fs \in InitialFiles
    /\ db = EmptyDb
    /\ covers = {}
    /\ nextId = 1
    /\ sc = IdleScan
    /\ hist = NoHistory
    /\ res = <<>>

Idle == sc.pc = "idle"

\* the environment acts between scans, while a scan is still to come
Quiet == Idle /\ hist.scans < MaxScans

\* the files change between scans; what they were before the first scan is
\* the initial state
BetweenScans == Quiet /\ hist.scans > 0 /\ hist.fsops < MaxFsOps

\* the modification time the next write stamps on a file
Now == hist.fsops + 2

Logged(op) == hist' = [hist EXCEPT !.log = Append(@, op), !.fsops = @ + 1]

(***************************************************************************)
(* The environment: the user's files change between scans.                 *)
(***************************************************************************)
FsCreate(p, c) ==
    /\ BetweenScans
    /\ ~Present(fs[p])
    /\ fs' = [fs EXCEPT ![p] = [mtime |-> Now, content |-> c]]
    /\ Logged([op |-> "create", path |-> p, to |-> p])
    /\ UNCHANGED <<db, covers, nextId, sc, res>>

FsModify(p, c) ==
    /\ BetweenScans
    /\ Present(fs[p])
    /\ fs' = [fs EXCEPT ![p] = [mtime |-> Now, content |-> c]]
    /\ Logged([op |-> "modify", path |-> p, to |-> p])
    /\ UNCHANGED <<db, covers, nextId, sc, res>>

FsRemove(p) ==
    /\ BetweenScans
    /\ Present(fs[p])
    /\ fs' = [fs EXCEPT ![p] = NoFile]
    /\ Logged([op |-> "remove", path |-> p, to |-> p])
    /\ UNCHANGED <<db, covers, nextId, sc, res>>

\* rename(2) to a path that does not exist: content and mtime move
FsRename(p, q) ==
    /\ BetweenScans
    /\ Present(fs[p]) /\ ~Present(fs[q])
    /\ fs' = [fs EXCEPT ![q] = fs[p], ![p] = NoFile]
    /\ Logged([op |-> "rename", path |-> p, to |-> q])
    /\ UNCHANGED <<db, covers, nextId, sc, res>>

(***************************************************************************)
(* LocalProvider::add_root and LocalProvider::scan.                        *)
(***************************************************************************)
\* INSERT OR IGNORE INTO library_roots (path)
AddRoot(r) ==
    /\ Quiet
    /\ r \notin db.library_roots
    /\ db' = [db EXCEPT !.library_roots = @ \cup {r}]
    /\ UNCHANGED hist
    /\ UNCHANGED <<fs, covers, nextId, sc, res>>

\* existing_map: path -> mtime of every tracks row, as pairs
ExistingMap(d) == {<<t.path, t.mtime>> : t \in d.tracks}

\* scan(), up to the loop over the roots: read the roots and the tracks,
\* DELETE FROM scan_found
ScanStart ==
    /\ Idle /\ hist.scans < MaxScans
    /\ db' = [db EXCEPT !.scan_found = {}]
    /\ sc' = [IdleScan EXCEPT !.pc = "roots", !.existing = ExistingMap(db),
                              !.roots_left = db.library_roots]
    /\ hist' = [hist EXCEPT !.scans = @ + 1, !.before = db,
                            !.prev_roots = hist.before.library_roots,
                            !.scan_log = hist.log,
                            !.log = <<>>, !.prev_result = hist.result,
                            !.result = "running",
                            !.failed = {}, !.recovered = {},
                            !.prev_failed = hist.failed]
    /\ UNCHANGED <<fs, covers, nextId, res>>

\* scan_path(root): the channel, the consumer task and the walk are set up
StartRoot(r) ==
    /\ sc.pc = "roots" /\ r \in sc.roots_left
    /\ sc' = [sc EXCEPT !.pc = "walk", !.root = r, !.roots_left = @ \ {r},
                        !.to_walk = {p \in Under(r) : Present(fs[p])},
                        !.chan = <<>>, !.consumer = NewConsumer,
                        !.emitted = {}, !.received = {}]
    /\ UNCHANGED <<fs, db, covers, nextId, hist, res>>

\* a lookup that never reports a match: every file is parsed again
UnchangedFileNever(existing, p, mtime) == FALSE

\* a lookup keyed by the modification time alone, whatever the path
UnchangedByMtime(existing, p, mtime) == \E e \in existing : e[2] = mtime

\* existing_map.get(&path) == Some(mtime)
UnchangedFile(existing, p, mtime) == <<p, mtime>> \in existing

\* one entry of the parallel walk: an Err entry is logged; else classify the
\* file and send the result;
\* blocking_send waits for room, and fails (ignored) once the receiver is gone
WalkFile(p) ==
    /\ sc.pc = "walk" /\ p \in sc.to_walk
    /\ LET mtime == fs[p].mtime
           entry_ok == Readable(fs[p])
           same == entry_ok /\ UnchangedFile(sc.existing, p, mtime)
           meta == parse_metadata(p, fs[p])
           msg == IF same THEN [kind |-> "Found", path |-> p]
                  ELSE [kind |-> "New", path |-> p, meta |-> meta, mtime |-> mtime]
           sends == entry_ok /\ (same \/ meta.ok)
           gone == sc.consumer.state = "panic"
       IN  /\ sends /\ ~gone => Len(sc.chan) < CHAN_CAP
           /\ sc' = [sc EXCEPT !.to_walk = @ \ {p},
                               !.parsed = IF same \/ ~entry_ok THEN @
                                          ELSE @ \cup {p},
                               !.emitted = IF sends THEN @ \cup {p} ELSE @,
                               !.chan = IF sends /\ ~gone THEN Append(@, msg) ELSE @]
    /\ UNCHANGED <<fs, db, covers, nextId, hist, res>>

\* the paths of a sequence of pending tuples
PathsOf(pending) == {pending[i].path : i \in 1..Len(pending)}

\* what hist records of a track batch that was flushed with outcome ok
Flushed(batch, ok) ==
    IF batch = {} THEN hist
    ELSE IF ok
         THEN [hist EXCEPT !.recovered = IF hist.failed = {} THEN @ ELSE @ \cup batch]
         ELSE [hist EXCEPT !.failed = @ \cup batch]

\* what rx.recv() yielding Some(res) does to the store w and the consumer,
\* and the paths of the track batch it flushes, if any
ReceivedIn(w) ==
    LET msg == Head(sc.chan)
        Outcome(r) ==
            [w |-> r.w, c |-> r.c, path |-> msg.path,
             batch |-> IF msg.kind = "New" /\ r.c.state = "run"
                          /\ r.c.pending_tracks = <<>>
                       THEN PathsOf(sc.consumer.pending_tracks) \cup {msg.path}
                       ELSE {}]
    IN  Outcome(IF msg.kind = "Found" THEN OnFound(w, sc.consumer, msg.path)
                ELSE OnNew(w, sc.consumer, msg.path, msg.meta, msg.mtime))

\* ok: the commit of the track batch succeeds
Received(ok) == ReceivedIn([World EXCEPT !.commit_ok = ok])

\* rx.recv() yields a result
Consume ==
    /\ sc.pc = "walk" /\ sc.consumer.state = "run" /\ sc.chan # <<>>
    /\ LET Handle(r) ==
               /\ SetWorld(r.w)
               /\ sc' = [sc EXCEPT !.consumer = r.c,
                                   !.received = @ \cup {r.path},
                                   !.chan = IF r.c.state = "panic" THEN <<>>
                                            ELSE Tail(@)]
               /\ hist' = Flushed(r.batch, TRUE)
       IN  Handle(Received(TRUE))
    /\ UNCHANGED <<fs, res>>

\* rx.recv() yields a result and the commit of the batch it completes fails
ConsumeCommitFails ==
    /\ sc.pc = "walk" /\ sc.consumer.state = "run" /\ sc.chan # <<>>
    /\ LET Handle(r) ==
               /\ r.batch # {}
               /\ SetWorld(r.w)
               /\ sc' = [sc EXCEPT !.consumer = r.c,
                                   !.received = @ \cup {r.path},
                                   !.chan = Tail(@)]
               /\ hist' = Flushed(r.batch, FALSE)
       IN  Handle(Received(FALSE))
    /\ UNCHANGED <<fs, res>>

\* rx.recv() yields a result with a picture, and the covers directory
\* cannot be written
ConsumeWriteFails ==
    /\ sc.pc = "walk" /\ sc.consumer.state = "run" /\ sc.chan # <<>>
    /\ Head(sc.chan).kind = "New" /\ Head(sc.chan).meta.cover_image # NoVal
    /\ LET Handle(r) ==
               /\ SetWorld(r.w)
               /\ sc' = [sc EXCEPT !.consumer = r.c,
                                   !.received = @ \cup {r.path},
                                   !.chan = IF r.c.state = "panic" THEN <<>>
                                            ELSE Tail(@)]
               /\ hist' = Flushed(r.batch, TRUE)
       IN  Handle(ReceivedIn([World EXCEPT !.write_ok = FALSE]))
    /\ UNCHANGED <<fs, res>>

\* rx.recv() yields None: the walk is over and the channel is empty
ConsumerExit ==
    /\ sc.pc = "walk" /\ sc.consumer.state = "run"
    /\ sc.chan = <<>> /\ sc.to_walk = {}
    /\ LET r == OnClosed(World, sc.consumer)
       IN  /\ SetWorld(r.w)
           /\ sc' = [sc EXCEPT !.consumer = r.c]
           /\ hist' = Flushed(PathsOf(sc.consumer.pending_tracks), TRUE)
    /\ UNCHANGED <<fs, res>>

\* the channel is closed and the commit of the last batch fails
ConsumerExitCommitFails ==
    /\ sc.pc = "walk" /\ sc.consumer.state = "run"
    /\ sc.chan = <<>> /\ sc.to_walk = {}
    /\ sc.consumer.pending_tracks # <<>>
    /\ LET r == OnClosed([World EXCEPT !.commit_ok = FALSE], sc.consumer)
       IN  /\ SetWorld(r.w)
           /\ sc' = [sc EXCEPT !.consumer = r.c]
           /\ hist' = Flushed(PathsOf(sc.consumer.pending_tracks), FALSE)
    /\ UNCHANGED <<fs, res>>

\* scan_path returns Ok: on to the next root
RootDone ==
    /\ sc.pc = "walk" /\ sc.to_walk = {} /\ sc.consumer.state = "done"
    /\ sc' = [sc EXCEPT !.pc = "roots", !.root = NoContent,
                        !.consumer = NewConsumer,
                        !.emitted = {}, !.received = {}]
    /\ UNCHANGED <<fs, db, covers, nextId, hist, res>>

\* consumer_handle.await is a JoinError: scan_path and scan() return Err
RootFailed ==
    /\ sc.pc = "walk" /\ sc.to_walk = {} /\ sc.consumer.state = "panic"
    /\ sc' = [IdleScan EXCEPT !.parsed = sc.parsed]
    /\ hist' = [hist EXCEPT !.result = "err"]
    /\ UNCHANGED <<fs, db, covers, nextId, res>>

\* after the last root: delete the tracks not found, return Ok
ScanFinish ==
    /\ sc.pc = "roots" /\ sc.roots_left = {}
    /\ db' = DeleteMissing(db)
    /\ sc' = [IdleScan EXCEPT !.parsed = sc.parsed]
    /\ hist' = [hist EXCEPT !.result = "ok"]
    /\ UNCHANGED <<fs, covers, nextId, res>>

Next ==
    \/ \E p \in TwoFiles, c \in Contents : FsCreate(p, c)
    \/ \E p \in TwoFiles, c \in Contents : FsModify(p, c)
    \/ \E p \in TwoFiles : FsRemove(p)
    \/ \E p, q \in TwoFiles : FsRename(p, q)
    \/ \E r \in Roots : AddRoot(r)
    \/ ScanStart
    \/ \E r \in Roots : StartRoot(r)
    \/ \E p \in Paths : WalkFile(p)
    \/ Consume
    \/ ConsumerExit
    \/ RootDone
    \/ RootFailed
    \/ ScanFinish

Spec == Init /\ [][Next]_vars


(***************************************************************************)
(* Scans of files that carry embedded pictures.  The files are tagged      *)
(* with artist X and album Z or W; two of the pictures have the same bytes *)
(* under different mime types.                                             *)
(***************************************************************************)
CoverContents == {"Z_p1png", "W_p1png", "W_p1jpeg", "W_p2png", "W"}

InitCover ==
    /\ fs \in FilesOf(TwoFiles, CoverContents)
    /\ fs["/m/X - T.flac"].content \in {NoContent, "Z_p1png"}
    /\ db = EmptyDb
    /\ covers = {}
    /\ nextId = 1
    /\ sc = IdleScan
    /\ hist = NoHistory
    /\ res = <<>>

NextCover ==
    \/ \E p \in Paths, c \in CoverContents : FsModify(p, c)
    \/ \E r \in Roots : AddRoot(r)
    \/ ScanStart
    \/ \E r \in Roots : StartRoot(r)
    \/ \E p \in Paths : WalkFile(p)
    \/ Consume
    \/ ConsumerExit
    \/ RootDone
    \/ ScanFinish

SpecCover == InitCover /\ [][NextCover]_vars

\* the same scans when writes to the covers directory may fail
NextCoverFaults ==
    \/ \E p \in Paths, c \in CoverContents : FsModify(p, c)
    \/ \E r \in Roots : AddRoot(r)
    \/ ScanStart
    \/ \E r \in Roots : StartRoot(r)
    \/ \E p \in Paths : WalkFile(p)
    \/ Consume
    \/ ConsumeWriteFails
    \/ ConsumerExit
    \/ RootDone
    \/ ScanFinish

SpecCoverFaults == InitCover /\ [][NextCoverFaults]_vars


\* LocalProvider::get_artist_albums: the albums joined to the artist by
\* album_artists
get_artist_albums(d, artist_id) ==
    {al \in d.albums : <<al.id, artist_id>> \in d.album_artists}


(***************************************************************************)
(* Scans over files some of which cannot be walked or parsed.              *)
(***************************************************************************)
ErrorContents == {"X_Z", "corrupt", "denied", "slash"}

InitErrors ==
    /\ fs \in FilesOf(Paths, ErrorContents)
    /\ db = EmptyDb
    /\ covers = {}
    /\ nextId = 1
    /\ sc = IdleScan
    /\ hist = NoHistory
    /\ res = <<>>

NextErrors ==
    \/ \E r \in Roots : AddRoot(r)
    \/ ScanStart
    \/ \E r \in Roots : StartRoot(r)
    \/ \E p \in Paths : WalkFile(p)
    \/ Consume
    \/ ConsumerExit
    \/ RootDone
    \/ RootFailed
    \/ ScanFinish

SpecErrors == InitErrors /\ [][NextErrors]_vars


(***************************************************************************)
(* Scans of one root during which commits of track batches may fail.       *)
(***************************************************************************)
FaultContents == {"X_Z", "x&Y_Z_byX"}

InitFaults ==
    /\ fs \in FilesOf(Paths, FaultContents)
    /\ \A p \in Paths : Present(fs[p])
    /\ fs["/m/X - T.flac"].content = "X_Z"
    /\ db = EmptyDb
    /\ covers = {}
    /\ nextId = 1
    /\ sc = IdleScan
    /\ hist = NoHistory
    /\ res = <<>>

NextFaults ==
    \/ \E p \in Paths, c \in FaultContents : FsModify(p, c)
    \/ AddRoot("/m")
    \/ ScanStart
    \/ StartRoot("/m")
    \/ \E p \in Paths : WalkFile(p)
    \/ Consume
    \/ ConsumeCommitFails
    \/ ConsumerExit
    \/ ConsumerExitCommitFails
    \/ RootDone
    \/ ScanFinish

SpecFaults == InitFaults /\ [][NextFaults]_vars


(***************************************************************************)
(* The first scan of one root that holds three new files: two by artist X, *)
(* one by artist Y, all of album Z whose album artist is X.  Which of the  *)
(* three files is Y's varies, and so does the order in which the walker    *)
(* meets the files.                                                        *)
(***************************************************************************)
InitScenario ==
    /\ fs \in FilesOf(Paths, {"X_Z", "Y_Z_byX"})
    /\ \A p \in Paths : Present(fs[p])
    /\ Cardinality({p \in Paths : fs[p].content = "Y_Z_byX"}) = 1
    /\ db = EmptyDb
    /\ covers = {}
    /\ nextId = 1
    /\ sc = IdleScan
    /\ hist = NoHistory
    /\ res = <<>>

NextScenario ==
    \/ \E r \in {"/m"} : AddRoot(r)
    \/ ScanStart
    \/ \E r \in {"/m"} : StartRoot(r)
    \/ \E p \in Paths : WalkFile(p)
    \/ Consume
    \/ ConsumerExit
    \/ RootDone
    \/ ScanFinish

SpecScenario == InitScenario /\ [][NextScenario]_vars


(***************************************************************************)
(* split_artists, alone and in the scan.  The files of one root carry      *)
(* artist tags that name two artists; after the scans split_artists is     *)
(* applied to raw strings made of two or three names joined by separators. *)
(* res holds the names, the separators and what split_artists returned.    *)
(***************************************************************************)
Delimiters ==
    {<<" ","f","e","a","t","."," ">>, <<" ","f","t","."," ">>,
     <<" ","&"," ">>, <<" ","/"," ">>, <<","," ">>}

Semicolon == <<";">>

ArtistNames == {<<"A">>, <<" ","B"," ">>, <<>>}

\* the names joined by the separators, in order
RECURSIVE Joined(_, _)
Joined(parts, seps) ==
    IF Len(parts) = 1 THEN parts[1]
    ELSE parts[1] \o seps[1] \o Joined(Tail(parts), Tail(seps))

SplitContents == {"AfeatB", "A&B", "A/B", "x&Y_Z_byX", "slash"}

InitSplit ==
    /\ fs \in FilesOf({"/m/s/t.flac", "/m/s/u.flac"}, SplitContents)
    /\ Present(fs["/m/s/t.flac"])
    /\ fs["/m/s/u.flac"].content \in {NoContent, "A&B"}
    /\ db = EmptyDb
    /\ covers = {}
    /\ nextId = 1
    /\ sc = IdleScan
    /\ hist = NoHistory
    /\ res = <<>>

\* let artists = split_artists(&raw)
SplitArtists(parts, seps) ==
    /\ Idle /\ hist.scans = MaxScans /\ res = <<>>
    /\ res' = [parts |-> parts, seps |-> seps,
               out |-> split_artists(Joined(parts, seps))]
    /\ UNCHANGED <<fs, db, covers, nextId, sc, hist>>

NextSplit ==
    \/ \E r \in {"/m/s"} : AddRoot(r)
    \/ ScanStart
    \/ \E r \in {"/m/s"} : StartRoot(r)
    \/ \E p \in Paths : WalkFile(p)
    \/ Consume
    \/ ConsumerExit
    \/ RootDone
    \/ RootFailed
    \/ ScanFinish
    \/ \E k \in 2..3 :
         \E parts \in [1..k -> ArtistNames],
            seps \in [1..(k - 1) -> Delimiters \cup {Semicolon}] :
               SplitArtists(parts, seps)

SpecSplit == InitSplit /\ [][NextSplit]_vars


(***************************************************************************)
(* parse_metadata alone: file stems made of one to four names joined by    *)
(* " - ", on files that carry no tag, a tag without artist, a tag whose    *)
(* artist is blank, or a tag with an artist.  res holds the names, the     *)
(* content and the ParsedMetadata.                                         *)
(***************************************************************************)
StemNames == {<<"A">>, <<" ","B"," ">>, <<"A"," ","&"," ","B">>, <<>>}

MaxStemParts == 4

StemContents == {"untagged", "title", "blank_W", "X_Z"}

InitFallback ==
    /\ fs \in FilesOf({}, {})
    /\ db = EmptyDb
    /\ covers = {}
    /\ nextId = 1
    /\ sc = IdleScan
    /\ hist = NoHistory
    /\ res = <<>>

\* parse_metadata on a file with this stem and this content
ParseMetadata(parts, seps, c) ==
    /\ res = <<>>
    /\ res' = [parts |-> parts, content |-> c,
               stem |-> Joined(parts, seps),
               meta |-> extract(Joined(parts, seps), Content(c))]
    /\ UNCHANGED <<fs, db, covers, nextId, sc, hist>>

NextFallback ==
    \E k \in 1..MaxStemParts :
       \E parts \in [1..k -> StemNames], c \in StemContents :
          ParseMetadata(parts, [i \in 1..(k - 1) |-> <<" ","-"," ">>], c)

SpecFallback == InitFallback /\ [][NextFallback]_vars


(***************************************************************************)
(* Scans of one root while the playback side writes to the tracks table:   *)
(* set_track_liked, and the play counter, for which the repository has no  *)
(* writer and which is modelled as the one statement its column allows.    *)
(* Both run at any moment, also in the middle of a scan.  res holds, for   *)
(* each track id, the last value set_track_liked wrote, the number of the  *)
(* scan it was written in and whether that scan was running.               *)
(***************************************************************************)
MaxPlayCount == 1

PlaybackContents == {"X_Z", "x&Y_Z_byX"}

InitPlayback ==
    /\ fs \in FilesOf({"/m/s/t.flac"}, PlaybackContents)
    /\ Present(fs["/m/s/t.flac"])
    /\ db = EmptyDb
    /\ covers = {}
    /\ nextId = 1
    /\ sc = IdleScan
    /\ hist = NoHistory
    /\ res = {}

\* UPDATE tracks SET liked = ? WHERE id = ?
SetTrackLiked(track_id, liked) ==
    /\ \E t \in db.tracks : t.id = track_id
    /\ db' = [db EXCEPT !.tracks =
                {IF t.id = track_id THEN [t EXCEPT !.liked = liked] ELSE t : t \in @}]
    /\ res' = {e \in res : e.id # track_id}
               \cup {[id |-> track_id, liked |-> liked, scan |-> hist.scans,
                      running |-> ~Idle]}
    /\ UNCHANGED <<fs, covers, nextId, sc, hist>>

\* UPDATE tracks SET play_count = play_count + 1 WHERE id = ?
RecordPlay(track_id) ==
    /\ \E t \in db.tracks : t.id = track_id /\ t.play_count < MaxPlayCount
    /\ db' = [db EXCEPT !.tracks =
                {IF t.id = track_id THEN [t EXCEPT !.play_count = @ + 1] ELSE t : t \in @}]
    /\ UNCHANGED <<fs, covers, nextId, sc, hist, res>>

NextPlayback ==
    \/ \E p \in {"/m/s/t.flac"}, c \in PlaybackContents : FsModify(p, c)
    \/ \E p \in {"/m/s/t.flac"} : FsRemove(p)
    \/ \E r \in {"/m/s"} : AddRoot(r)
    \/ ScanStart
    \/ \E r \in {"/m/s"} : StartRoot(r)
    \/ \E p \in Paths : WalkFile(p)
    \/ Consume
    \/ ConsumerExit
    \/ RootDone
    \/ ScanFinish
    \/ \E t \in db.tracks, liked \in BOOLEAN : SetTrackLiked(t.id, liked)
    \/ \E t \in db.tracks : RecordPlay(t.id)

SpecPlayback == InitPlayback /\ [][NextPlayback]_vars


(***************************************************************************)
(* The end of scan(): the Last.fm backfill that scan() awaits before it    *)
(* returns.  Every artist without bio or image gets its own retry loop     *)
(* (buffer_unordered runs them side by side; the catalog here has fewer    *)
(* artists than its width of 20).  The server answers each request with    *)
(* the info, with a rate-limit error (429) or with another error.  res     *)
(* holds where scan() is, and for each artist where its loop is and its    *)
(* attempts counter.                                                       *)
(***************************************************************************)
EnrichArtists == {<<"X">>, <<"Y">>, <<"Z">>, UnknownArtist}

MaxAttempts == 3

InitEnrich ==
    /\ fs \in FilesOf({}, {})
    /\ db = [EmptyDb EXCEPT !.artists =
                {[id |-> 1, name |-> <<"X">>], [id |-> 2, name |-> <<"Y">>],
                 [id |-> 3, name |-> <<"Z">>], [id |-> 4, name |-> UnknownArtist]}]
    /\ covers = {}
    /\ nextId = 5
    /\ sc = IdleScan
    /\ hist = NoHistory
    /\ res = [pc |-> "reconciled", result |-> "none",
              loops |-> [a \in EnrichArtists |-> [at |-> "none", attempts |-> 0]]]

EnrichFrame == UNCHANGED <<fs, db, covers, nextId, sc, hist>>

\* self.config.lastfm is None or not enabled: Ok(())
EnrichDisabled ==
    /\ res.pc = "reconciled"
    /\ res' = [res EXCEPT !.pc = "returned", !.result = "ok"]
    /\ EnrichFrame

\* SELECT id, name FROM artists WHERE bio IS NULL OR image_url IS NULL
\* fails: map_err(..)? returns Err
EnrichSelectFails ==
    /\ res.pc = "reconciled"
    /\ res' = [res EXCEPT !.pc = "returned", !.result = "err"]
    /\ EnrichFrame

\* the stream over the selected artists starts; "Unknown Artist" returns
\* at once
EnrichStart(selected) ==
    /\ res.pc = "reconciled"
    /\ res' = [res EXCEPT !.pc = "enrich",
                  !.loops = [a \in EnrichArtists |->
                               IF a \in selected /\ a # UnknownArtist
                               THEN [at |-> "request", attempts |-> 0]
                               ELSE [at |-> "done", attempts |-> 0]]]
    /\ EnrichFrame

\* client.get_artist_info(&name) is Ok(info): UPDATE artists, break
GetArtistInfoOk(a) ==
    /\ res.pc = "enrich" /\ res.loops[a].at = "request"
    /\ res' = [res EXCEPT !.loops[a].at = "done"]
    /\ EnrichFrame

\* Err whose text contains "429": sleep 5 s and continue; attempts is not
\* touched
GetArtistInfoRateLimited(a) ==
    /\ res.pc = "enrich" /\ res.loops[a].at = "request"
    /\ res' = [res EXCEPT !.loops[a].at = "sleep"]
    /\ EnrichFrame

\* attempts += 1; break once it reaches 3, else sleep and ask again
CountAttempt(loop) ==
    IF loop.attempts + 1 >= MaxAttempts
    THEN [at |-> "done", attempts |-> loop.attempts + 1]
    ELSE [at |-> "sleep", attempts |-> loop.attempts + 1]

\* any other Err
GetArtistInfoFailed(a) ==
    /\ res.pc = "enrich" /\ res.loops[a].at = "request"
    /\ res' = [res EXCEPT !.loops[a] = CountAttempt(@)]
    /\ EnrichFrame

\* tokio::time::sleep is over: the loop asks again
EnrichWake(a) ==
    /\ res.pc = "enrich" /\ res.loops[a].at = "sleep"
    /\ res' = [res EXCEPT !.loops[a].at = "request"]
    /\ EnrichFrame

\* collect() has every loop's (): Ok(())
EnrichReturn ==
    /\ res.pc = "enrich"
    /\ \A a \in EnrichArtists : res.loops[a].at = "done"
    /\ res' = [res EXCEPT !.pc = "returned", !.result = "ok"]
    /\ EnrichFrame

NextEnrich ==
    \/ EnrichDisabled
    \/ EnrichSelectFails
    \/ \E selected \in SUBSET EnrichArtists : EnrichStart(selected)
    \/ \E a \in EnrichArtists : GetArtistInfoOk(a)
    \/ \E a \in EnrichArtists : GetArtistInfoRateLimited(a)
    \/ \E a \in EnrichArtists : GetArtistInfoFailed(a)
    \/ \E a \in EnrichArtists : EnrichWake(a)
    \/ EnrichReturn

\* the runtime keeps running scan()'s future and the timers fire
SpecEnrich == InitEnrich /\ [][NextEnrich]_vars /\ WF_vars(NextEnrich)


(***************************************************************************)
(* scan() at the grain of its tasks.  For every root, scan_path spawns a   *)
(* consumer task and a walker and awaits both; the consumer's flushes are  *)
(* transactions that begin and commit in separate steps, and db.begin()    *)
(* and tx.commit() may fail.  res holds the position of scan(), the        *)
(* walkers' remaining files, the channels, the consumer tasks and the      *)
(* write transactions that are open.                                       *)
(***************************************************************************)
TaskContents == {"X_Z", "slash"}

\* a consumer task: where it is, whether its receive loop has ended, and
\* its caches and pending vectors
NoTask == [at |-> "none", closing |-> FALSE, c |-> NewConsumer]

NoTasks ==
    [pc |-> "idle", scans |-> 0, result |-> "none", roots_left |-> {},
     root |-> NoContent, existing |-> {},
     to_walk |-> [r \in Roots |-> {}], chan |-> [r \in Roots |-> <<>>],
     task |-> [r \in Roots |-> NoTask], tx |-> {}]

InitTasks ==
    /\ fs \in FilesOf(Paths, TaskContents)
    /\ \A p \in Paths : Present(fs[p])
    /\ \A p \in TwoFiles : fs[p].content = "X_Z"
    /\ db = [EmptyDb EXCEPT !.library_roots = Roots]
    /\ covers = {}
    /\ nextId = 1
    /\ sc = IdleScan
    /\ hist = NoHistory
    /\ res = NoTasks

\* scan(), up to the loop over the roots
TaskScanStart ==
    /\ res.pc = "idle" /\ res.scans < MaxScans
    /\ db' = [db EXCEPT !.scan_found = {}]
    /\ res' = [NoTasks EXCEPT !.pc = "roots", !.scans = res.scans + 1,
                              !.result = "running",
                              !.existing = ExistingMap(db),
                              !.roots_left = db.library_roots,
                              !.task = res.task, !.chan = res.chan,
                              !.to_walk = res.to_walk, !.tx = res.tx]
    /\ UNCHANGED <<fs, covers, nextId, sc, hist>>

\* scan_path(r): mpsc::channel, tokio::spawn of the consumer, spawn_blocking
\* of the walk
SpawnTasks(r) ==
    /\ res.pc = "roots" /\ r \in res.roots_left
    /\ res' = [res EXCEPT !.pc = "walk", !.root = r, !.roots_left = @ \ {r},
                          !.to_walk[r] = {p \in Under(r) : Present(fs[p])},
                          !.chan[r] = <<>>,
                          !.task[r] = [NoTask EXCEPT !.at = "recv"]]
    /\ UNCHANGED <<fs, db, covers, nextId, sc, hist>>

\* one entry of the walk of root r: classify the file and blocking_send the
\* result; the send fails at once when the receiver is gone
WalkerSend(r, p) ==
    /\ p \in res.to_walk[r]
    /\ LET mtime == fs[p].mtime
           entry_ok == Readable(fs[p])
           same == entry_ok /\ UnchangedFile(res.existing, p, mtime)
           meta == parse_metadata(p, fs[p])
           msg == IF same THEN [kind |-> "Found", path |-> p]
                  ELSE [kind |-> "New", path |-> p, meta |-> meta, mtime |-> mtime]
           sends == entry_ok /\ (same \/ meta.ok)
           gone == res.task[r].at = "panic"
       IN  /\ sends /\ ~gone => Len(res.chan[r]) < CHAN_CAP
           /\ res' = [res EXCEPT !.to_walk[r] = @ \ {p},
                                 !.chan[r] = IF sends /\ ~gone THEN Append(@, msg)
                                             ELSE @]
    /\ UNCHANGED <<fs, db, covers, nextId, sc, hist>>

\* rx.recv() yields Some: Found pushes the path; New resolves the artists
\* and the album (statements outside any transaction) and pushes
TaskRecv(r) ==
    /\ res.task[r].at = "recv" /\ res.chan[r] # <<>>
    /\ LET msg == Head(res.chan[r])
           t == res.task[r]
           Handle(o) ==
               /\ SetWorld(o.w)
               /\ res' = [res EXCEPT
                     !.chan[r] = IF o.c.state = "panic" THEN <<>> ELSE Tail(@),
                     !.task[r] = [t EXCEPT !.c = o.c,
                         !.at = IF o.c.state = "panic" THEN "panic"
                                ELSE IF msg.kind = "Found" THEN "flush_found"
                                ELSE "flush_tracks"]]
       IN  Handle(IF msg.kind = "Found"
                  THEN [w |-> World,
                        c |-> [t.c EXCEPT !.pending_found = Append(@, msg.path)]]
                  ELSE ResolveNew(World, t.c, msg.path, msg.meta, msg.mtime))
    /\ UNCHANGED <<fs, sc, hist>>

\* the walk has returned, which drops tx and its clones, and nothing is
\* buffered
ChannelClosed(r) == res.chan[r] = <<>> /\ res.to_walk[r] = {}

\* rx.recv() yields None
TaskClosed(r) ==
    /\ res.task[r].at = "recv" /\ ChannelClosed(r)
    /\ res' = [res EXCEPT !.task[r].closing = TRUE, !.task[r].at = "flush_tracks"]
    /\ UNCHANGED <<fs, db, covers, nextId, sc, hist>>

\* if pending_tracks.len() >= BATCH_SIZE in the loop, if
\* !pending_tracks.is_empty() after it
TracksDue(t) ==
    IF t.closing THEN t.c.pending_tracks # <<>>
    ELSE Len(t.c.pending_tracks) >= BATCH_SIZE

\* if pending_found.len() >= BATCH_SIZE * 5 in the loop, if
\* !pending_found.is_empty() after it
FoundDue(t) ==
    IF t.closing THEN t.c.pending_found # <<>>
    ELSE Len(t.c.pending_found) >= BATCH_SIZE * 5

\* where the task goes after the found paths are dealt with
AfterFound(t) == IF t.closing THEN "done" ELSE "recv"

\* the condition of the track flush is false
SkipTracks(r) ==
    /\ res.task[r].at = "flush_tracks" /\ ~TracksDue(res.task[r])
    /\ res' = [res EXCEPT !.task[r].at = "flush_found"]
    /\ UNCHANGED <<fs, db, covers, nextId, sc, hist>>

\* flush_tracks: db.begin() succeeds
BeginTracks(r) ==
    /\ res.task[r].at = "flush_tracks" /\ TracksDue(res.task[r])
    /\ res' = [res EXCEPT !.task[r].at = "tracks_tx",
                          !.tx = @ \cup {<<r, "tracks">>}]
    /\ UNCHANGED <<fs, db, covers, nextId, sc, hist>>

\* flush_tracks: db.begin() fails; the function returns, tracks is not
\* cleared
BeginTracksFails(r) ==
    /\ res.task[r].at = "flush_tracks" /\ TracksDue(res.task[r])
    /\ res' = [res EXCEPT !.task[r].at = "flush_found"]
    /\ UNCHANGED <<fs, db, covers, nextId, sc, hist>>

\* flush_tracks: the statements and tx.commit(); ok: the commit succeeds;
\* tracks.clear() either way
CommitTracks(r, ok) ==
    /\ res.task[r].at = "tracks_tx"
    /\ LET t == res.task[r]
           w == flush_tracks([World EXCEPT !.commit_ok = ok], t.c.pending_tracks)
       IN  /\ SetWorld(w)
           /\ res' = [res EXCEPT !.task[r].c.pending_tracks = <<>>,
                                 !.task[r].at = "flush_found",
                                 !.tx = @ \ {<<r, "tracks">>}]
    /\ UNCHANGED <<fs, sc, hist>>

\* the condition of the found flush is false
SkipFound(r) ==
    /\ res.task[r].at = "flush_found" /\ ~FoundDue(res.task[r])
    /\ res' = [res EXCEPT !.task[r].at = AfterFound(res.task[r])]
    /\ UNCHANGED <<fs, db, covers, nextId, sc, hist>>

\* flush_found: db.begin() succeeds
BeginFound(r) ==
    /\ res.task[r].at = "flush_found" /\ FoundDue(res.task[r])
    /\ res' = [res EXCEPT !.task[r].at = "found_tx",
                          !.tx = @ \cup {<<r, "found">>}]
    /\ UNCHANGED <<fs, db, covers, nextId, sc, hist>>

\* flush_found: db.begin() fails; the function returns, paths is not cleared
BeginFoundFails(r) ==
    /\ res.task[r].at = "flush_found" /\ FoundDue(res.task[r])
    /\ res' = [res EXCEPT !.task[r].at = AfterFound(res.task[r])]
    /\ UNCHANGED <<fs, db, covers, nextId, sc, hist>>

\* flush_found: the inserts, tx.commit() and paths.clear()
CommitFound(r) ==
    /\ res.task[r].at = "found_tx"
    /\ LET t == res.task[r]
       IN  /\ SetWorld(flush_found(World, t.c.pending_found))
           /\ res' = [res EXCEPT !.task[r].c.pending_found = <<>>,
                                 !.task[r].at = AfterFound(t),
                                 !.tx = @ \ {<<r, "found">>}]
    /\ UNCHANGED <<fs, sc, hist>>

\* scan_path returns at once, whatever the consumer task is doing
ConsumerJoinedNoWait(t) == t.at # "panic"

\* consumer_handle.await yields Ok: the task has run to its end
ConsumerJoined(t) == t.at = "done"

\* the walk has ended and the consumer is joined: scan_path returns Ok
JoinTasks ==
    /\ res.pc = "walk" /\ res.to_walk[res.root] = {}
    /\ ConsumerJoined(res.task[res.root])
    /\ res' = [res EXCEPT !.pc = "roots", !.root = NoContent]
    /\ UNCHANGED <<fs, db, covers, nextId, sc, hist>>

\* consumer_handle.await yields a JoinError: scan_path and scan() return Err
JoinTasksFailed ==
    /\ res.pc = "walk" /\ res.to_walk[res.root] = {}
    /\ res.task[res.root].at = "panic"
    /\ res' = [res EXCEPT !.pc = "idle", !.root = NoContent, !.roots_left = {},
                          !.result = "err"]
    /\ UNCHANGED <<fs, db, covers, nextId, sc, hist>>

\* after the last root: delete the tracks not found, return Ok
TaskScanFinish ==
    /\ res.pc = "roots" /\ res.roots_left = {}
    /\ db' = DeleteMissing(db)
    /\ res' = [res EXCEPT !.pc = "idle", !.result = "ok"]
    /\ UNCHANGED <<fs, covers, nextId, sc, hist>>

NextTasks ==
    \/ TaskScanStart
    \/ \E r \in Roots : SpawnTasks(r)
    \/ \E r \in Roots, p \in Paths : WalkerSend(r, p)
    \/ \E r \in Roots : TaskRecv(r)
    \/ \E r \in Roots : TaskClosed(r)
    \/ \E r \in Roots : SkipTracks(r)
    \/ \E r \in Roots : BeginTracks(r)
    \/ \E r \in Roots : BeginTracksFails(r)
    \/ \E r \in Roots, ok \in BOOLEAN : CommitTracks(r, ok)
    \/ \E r \in Roots : SkipFound(r)
    \/ \E r \in Roots : BeginFound(r)
    \/ \E r \in Roots : BeginFoundFails(r)
    \/ \E r \in Roots : CommitFound(r)
    \/ JoinTasks
    \/ JoinTasksFailed
    \/ TaskScanFinish

SpecTasks == InitTasks /\ [][NextTasks]_vars


(***************************************************************************)
(* One scan_path call reduced to its tasks and its channel: what the walk  *)
(* meets is a list of entries, each of which is unchanged (Found), new     *)
(* (New), new with a tag whose artist list is empty (NewNoArtist, on which *)
(* the consumer panics) or skipped without a send (Skip).  The consumer    *)
(* keeps the lengths of its pending vectors.  res holds the position of    *)
(* scan_path, the entries not yet walked, whether the walk has returned,   *)
(* the channel and the consumer.                                           *)
(***************************************************************************)
\* entries under the root
MaxEntries == 4

EntryKinds == {"Found", "New", "NewNoArtist", "Skip"}

InitChannel ==
    /\ fs \in FilesOf({}, {})
    /\ db = EmptyDb
    /\ covers = {}
    /\ nextId = 1
    /\ sc = IdleScan
    /\ hist = NoHistory
    /\ \E entries \in [1..MaxEntries -> EntryKinds] :
          res = [pc |-> "setup", entries |-> entries, to_walk |-> {},
                 walker |-> "none", chan |-> <<>>,
                 consumer |-> [at |-> "none", pending_tracks |-> 0,
                               pending_found |-> 0],
                 result |-> "none"]

ChannelFrame == UNCHANGED <<fs, db, covers, nextId, sc, hist>>

\* mpsc::channel(200), tokio::spawn of the consumer, spawn_blocking of the
\* walk
ChanSpawn ==
    /\ res.pc = "setup"
    /\ res' = [res EXCEPT !.pc = "walk", !.to_walk = 1..MaxEntries,
                          !.walker = "run", !.consumer.at = "recv"]
    /\ ChannelFrame

\* senders that never notice that the receiver was dropped
ReceiverGoneUnnoticed == FALSE

\* the receiver half is dropped with the consumer task
ReceiverGone == res.consumer.at \in {"panic", "done"}

\* tx.blocking_send(..) cannot complete yet: the channel is full and the
\* receiver is alive
SendWaits(kind) ==
    kind # "Skip" /\ ~ReceiverGone /\ Len(res.chan) >= CHAN_CAP

\* one entry of the walk: nothing is sent for a skipped entry; a send to a
\* dropped receiver returns Err, which the walk ignores
ChanSend(i) ==
    /\ res.pc = "walk" /\ i \in res.to_walk
    /\ ~SendWaits(res.entries[i])
    /\ res' = [res EXCEPT !.to_walk = @ \ {i},
                          !.chan = IF res.entries[i] = "Skip" \/ ReceiverGone
                                   THEN @ ELSE Append(@, res.entries[i])]
    /\ ChannelFrame

\* for_each returns: the closure and its sender are dropped, the blocking
\* task ends
ChanWalkEnds ==
    /\ res.pc = "walk" /\ res.walker = "run" /\ res.to_walk = {}
    /\ res' = [res EXCEPT !.walker = "done"]
    /\ ChannelFrame

\* a pending vector after its flush was due: cleared unless db.begin()
\* failed
AfterFlush(n, due, begin_ok) == IF due /\ begin_ok THEN 0 ELSE n

\* rx.recv() yields Some: Found pushes a path, New pushes a path and a
\* track and flushes what is full, and &meta.artists[0] panics on an empty
\* list, which drops the receiver and what is buffered
ChanRecv(tracks_ok, found_ok) ==
    /\ res.pc = "walk" /\ res.consumer.at = "recv" /\ res.chan # <<>>
    /\ LET kind == Head(res.chan)
           c == res.consumer
           nt == IF kind = "New" THEN c.pending_tracks + 1 ELSE c.pending_tracks
           nf == c.pending_found + 1
       IN  res' = IF kind = "NewNoArtist"
                  THEN [res EXCEPT !.chan = <<>>, !.consumer.at = "panic"]
                  ELSE [res EXCEPT
                          !.chan = Tail(@),
                          !.consumer.pending_tracks =
                              AfterFlush(nt, kind = "New" /\ nt >= BATCH_SIZE,
                                         tracks_ok),
                          !.consumer.pending_found =
                              AfterFlush(nf, nf >= BATCH_SIZE * 5, found_ok)]
    /\ ChannelFrame

\* every sender is dropped and nothing is buffered
SendersDropped == res.walker = "done" /\ res.chan = <<>>

\* rx.recv() yields None: the flushes after the loop, then the task ends
ChanClosed(tracks_ok, found_ok) ==
    /\ res.pc = "walk" /\ res.consumer.at = "recv" /\ SendersDropped
    /\ res' = [res EXCEPT
                 !.consumer.at = "done",
                 !.consumer.pending_tracks =
                     AfterFlush(@, @ > 0, tracks_ok),
                 !.consumer.pending_found =
                     AfterFlush(@, @ > 0, found_ok)]
    /\ ChannelFrame

\* the blocking task is joined, then consumer_handle.await yields Ok
ChanJoin ==
    /\ res.pc = "walk" /\ res.walker = "done" /\ res.consumer.at = "done"
    /\ res' = [res EXCEPT !.pc = "returned", !.result = "ok"]
    /\ ChannelFrame

\* the blocking task is joined, then consumer_handle.await yields a
\* JoinError
ChanJoinFailed ==
    /\ res.pc = "walk" /\ res.walker = "done" /\ res.consumer.at = "panic"
    /\ res' = [res EXCEPT !.pc = "returned", !.result = "err"]
    /\ ChannelFrame

NextChannel ==
    \/ ChanSpawn
    \/ \E i \in 1..MaxEntries : ChanSend(i)
    \/ ChanWalkEnds
    \/ \E tracks_ok, found_ok \in BOOLEAN : ChanRecv(tracks_ok, found_ok)
    \/ \E tracks_ok, found_ok \in BOOLEAN : ChanClosed(tracks_ok, found_ok)
    \/ ChanJoin
    \/ ChanJoinFailed

\* the runtime keeps running some task that can take a step
SpecChannel == InitChannel /\ [][NextChannel]_vars /\ WF_vars(NextChannel)


(***************************************************************************)
(* Two invocations of scan() on one catalog, as scan_library allows when   *)
(* it is invoked again before the first call has returned.  The catalog    *)
(* holds the tracks of an earlier scan and the files do not change.  sc is *)
(* the invocation that takes the next step and res.other the one that is   *)
(* suspended at an await; res.catalog is the catalog before both.          *)
(***************************************************************************)
\* the store after a scan of the files at paths has gone through the
\* consumer
RECURSIVE ScannedStore(_, _, _, _)
ScannedStore(w, c, files, paths) ==
    IF paths = <<>> THEN OnClosed(w, c).w
    ELSE LET Rest(r) == ScannedStore(r.w, r.c, files, Tail(paths))
         IN  Rest(OnNew(w, c, Head(paths),
                        parse_metadata(Head(paths), files[Head(paths)]),
                        files[Head(paths)].mtime))

\* the store after scan() has run once over root /m
FirstScan(files) ==
    ScannedStore([db |-> [EmptyDb EXCEPT !.library_roots = {"/m"}],
                  covers |-> {}, nextId |-> 1, commit_ok |-> TRUE,
                  found_ok |-> TRUE, write_ok |-> TRUE, album_ok |-> TRUE],
                 NewConsumer, files, <<"/m/X - T.flac", "/m/s/t.flac">>)

InitOverlap ==
    /\ fs \in FilesOf(TwoFiles, {"X_Z"})
    /\ \A p \in TwoFiles : Present(fs[p])
    /\ db = FirstScan(fs).db
    /\ covers = FirstScan(fs).covers
    /\ nextId = FirstScan(fs).nextId
    /\ sc = IdleScan
    /\ hist = NoHistory
    /\ res = [other |-> IdleScan, catalog |-> db]

\* the invocation that runs reaches an await and the runtime resumes the
\* other one
SwitchInvocation ==
    /\ sc' = res.other
    /\ res' = [res EXCEPT !.other = sc]
    /\ sc # res.other
    /\ UNCHANGED <<fs, db, covers, nextId, hist>>

NextOverlap ==
    \/ SwitchInvocation
    \/ ScanStart
    \/ StartRoot("/m")
    \/ \E p \in Paths : WalkFile(p)
    \/ Consume
    \/ ConsumerExit
    \/ RootDone
    \/ ScanFinish

SpecOverlap == InitOverlap /\ [][NextOverlap]_vars


(***************************************************************************)
(* One scan() over a catalog whose files are all on disk and unchanged, so *)
(* that every result of the walk is Found and the consumer only collects   *)
(* and flushes found paths.  Root /m holds enough files to fill a batch of *)
(* found paths inside the receive loop; root /m/s, when registered, holds  *)
(* the first of them again.  Files are numbered in the order of the walk.  *)
(* db.begin() and tx.commit() of flush_found may fail.  res holds the      *)
(* position of scan(), the walk, the channel and the consumer, and records *)
(* the paths whose batch failed to commit (lost) and those kept after a    *)
(* failed begin (kept), and whether the last commit succeeded (committed). *)
(***************************************************************************)
\* files under /m: one more than a batch of found paths
FoundFiles == BATCH_SIZE * 5 + 1

\* the paths of a batch
PathsIn(paths) == {paths[i] : i \in 1..Len(paths)}

FoundUnder(r) == IF r = "/m" THEN FoundFiles ELSE 1

\* the catalog after an earlier scan of the files: one artist, one album,
\* a track row per file
RECURSIVE CatalogOfFiles(_, _)
CatalogOfFiles(d, n) ==
    IF n = 0 THEN d
    ELSE RelinkTrack(UpsertTrack(CatalogOfFiles(d, n - 1), n + 2, n, <<"a">>,
                                 1, 2, 1),
                     n + 2, <<1>>)

FoundCatalog ==
    CatalogOfFiles(
        LinkAlbumArtists(InsertAlbum(InsertArtist(EmptyDb, 1, <<"X">>),
                                     2, <<"Z">>, 1, NoVal), 2, <<1>>),
        FoundFiles)

NoFoundScan ==
    [pc |-> "idle", result |-> "none", roots_left |-> {}, root |-> NoContent,
     sent |-> 0, chan |-> <<>>, at |-> "none", closing |-> FALSE,
     pending_found |-> <<>>, committed |-> TRUE, lost |-> {}, kept |-> {}]

InitFound ==
    /\ fs \in FilesOf({}, {})
    /\ \E roots \in {{"/m"}, Roots} :
          db = [FoundCatalog EXCEPT !.library_roots = roots,
                                    !.scan_found = 1..FoundFiles]
    /\ covers = {}
    /\ nextId = FoundFiles + 3
    /\ sc = IdleScan
    /\ hist = NoHistory
    /\ res = NoFoundScan

FoundFrame == UNCHANGED <<fs, covers, nextId, sc, hist>>

\* scan(), up to the loop over the roots
FoundScanStart ==
    /\ res.pc = "idle" /\ res.result = "none"
    /\ db' = [db EXCEPT !.scan_found = {}]
    /\ res' = [res EXCEPT !.pc = "roots", !.result = "running",
                          !.roots_left = db.library_roots]
    /\ FoundFrame

\* scan_path(r): the channel, the consumer task and the walk
FoundSpawn(r) ==
    /\ res.pc = "roots" /\ r \in res.roots_left
    /\ res' = [res EXCEPT !.pc = "walk", !.root = r, !.roots_left = @ \ {r},
                          !.sent = 0, !.chan = <<>>, !.at = "recv",
                          !.closing = FALSE, !.pending_found = <<>>]
    /\ UNCHANGED db /\ FoundFrame

\* the walk meets the next file: its mtime is that of existing_map, so
\* Found(path) is sent once the channel has room
FoundSend ==
    /\ res.pc = "walk" /\ res.sent < FoundUnder(res.root)
    /\ Len(res.chan) < CHAN_CAP
    /\ res' = [res EXCEPT !.sent = @ + 1, !.chan = Append(@, res.sent + 1)]
    /\ UNCHANGED db /\ FoundFrame

\* rx.recv() yields Some(Found(path)): pending_found.push(path)
FoundRecv ==
    /\ res.pc = "walk" /\ res.at = "recv" /\ res.chan # <<>>
    /\ res' = [res EXCEPT !.chan = Tail(@),
                          !.pending_found = Append(@, Head(res.chan)),
                          !.at = "flush_found"]
    /\ UNCHANGED db /\ FoundFrame

\* rx.recv() yields None; pending_tracks is empty
FoundClosed ==
    /\ res.pc = "walk" /\ res.at = "recv" /\ res.chan = <<>>
    /\ res.sent = FoundUnder(res.root)
    /\ res' = [res EXCEPT !.closing = TRUE, !.at = "flush_found"]
    /\ UNCHANGED db /\ FoundFrame

\* the found paths are to be flushed now
FoundFlushDue ==
    IF res.closing THEN res.pending_found # <<>>
    ELSE Len(res.pending_found) >= BATCH_SIZE * 5

FoundNext == IF res.closing THEN "done" ELSE "recv"

FoundSkip ==
    /\ res.pc = "walk" /\ res.at = "flush_found" /\ ~FoundFlushDue
    /\ res' = [res EXCEPT !.at = FoundNext]
    /\ UNCHANGED db /\ FoundFrame

\* flush_found: db.begin() succeeds
FoundBegin ==
    /\ res.pc = "walk" /\ res.at = "flush_found" /\ FoundFlushDue
    /\ res' = [res EXCEPT !.at = "found_tx"]
    /\ UNCHANGED db /\ FoundFrame

\* flush_found: db.begin() fails: return, paths is not cleared
FoundBeginFails ==
    /\ res.pc = "walk" /\ res.at = "flush_found" /\ FoundFlushDue
    /\ res' = [res EXCEPT !.at = FoundNext,
                          !.kept = @ \cup PathsIn(res.pending_found)]
    /\ UNCHANGED db /\ FoundFrame

\* flush_found: the inserts, let _ = tx.commit(), paths.clear(); ok: the
\* commit succeeds
FoundCommit(ok) ==
    /\ res.pc = "walk" /\ res.at = "found_tx"
    /\ db' = flush_found([World EXCEPT !.found_ok = ok], res.pending_found).db
    /\ res' = [res EXCEPT !.at = FoundNext, !.pending_found = <<>>,
                          !.committed = ok,
                          !.lost = IF ok THEN @
                                   ELSE @ \cup PathsIn(res.pending_found)]
    /\ FoundFrame

\* scan_path returns Ok
FoundJoin ==
    /\ res.pc = "walk" /\ res.at = "done"
    /\ res' = [res EXCEPT !.pc = "roots", !.root = NoContent]
    /\ UNCHANGED db /\ FoundFrame

\* after the last root: delete the tracks not found, return Ok
FoundScanFinish ==
    /\ res.pc = "roots" /\ res.roots_left = {}
    /\ db' = DeleteMissing(db)
    /\ res' = [res EXCEPT !.pc = "idle", !.result = "ok"]
    /\ FoundFrame

NextFound ==
    \/ FoundScanStart
    \/ \E r \in Roots : FoundSpawn(r)
    \/ FoundSend
    \/ FoundRecv
    \/ FoundClosed
    \/ FoundSkip
    \/ FoundBegin
    \/ FoundBeginFails
    \/ \E ok \in BOOLEAN : FoundCommit(ok)
    \/ FoundJoin
    \/ FoundScanFinish

SpecFound == InitFound /\ [][NextFound]_vars


(***************************************************************************)
(* A scan of a catalogued library whose files have decayed: a part         *)
(* of the tree becomes unreadable, or a file is rewritten and can no       *)
(* longer be decoded, or is rewritten and the album query fails when the   *)
(* consumer resolves it.  res holds the album failures: the scan, the path *)
(* and the root of each.                                                   *)
(***************************************************************************)
DecayContents == {"X_Z", "corrupt", "slash"}

\* the state after a first scan of two files, under one root or two
InitDecay ==
    /\ fs \in FilesOf(TwoFiles, {"X_Z"})
    /\ \A p \in TwoFiles : Present(fs[p])
    /\ \E roots \in {{"/m"}, Roots} :
          db = [FirstScan(fs).db EXCEPT !.library_roots = roots]
    /\ covers = FirstScan(fs).covers
    /\ nextId = FirstScan(fs).nextId
    /\ sc = IdleScan
    /\ hist = [NoHistory EXCEPT !.scans = 1]
    /\ res = {}

\* the changes of the files between two scans
MaxDecay == 2

Decaying == Quiet /\ hist.fsops < MaxDecay

\* the directory of the file, or the file, can no longer be read: WalkDir
\* yields Err where the entry was
FsRevoke(p) ==
    /\ Decaying
    /\ Present(fs[p]) /\ Readable(fs[p])
    /\ fs' = [fs EXCEPT ![p].content = "denied"]
    /\ Logged([op |-> "revoke", path |-> p, to |-> p])
    /\ UNCHANGED <<db, covers, nextId, sc, res>>

\* the file is written again with content c
FsRewrite(p, c) ==
    /\ Decaying
    /\ Present(fs[p]) /\ Readable(fs[p])
    /\ fs' = [fs EXCEPT ![p] = [mtime |-> Now, content |-> c]]
    /\ Logged([op |-> "modify", path |-> p, to |-> p])
    /\ UNCHANGED <<db, covers, nextId, sc, res>>

\* rx.recv() yields a New result and resolve_album returns Err: the
\* consumer logs it and continues with the next result
ConsumeAlbumFails ==
    /\ sc.pc = "walk" /\ sc.consumer.state = "run" /\ sc.chan # <<>>
    /\ Head(sc.chan).kind = "New"
    /\ LET Handle(r) ==
               /\ r.c.state = "run"
               /\ r.c.pending_tracks = sc.consumer.pending_tracks
               /\ SetWorld(r.w)
               /\ sc' = [sc EXCEPT !.consumer = r.c,
                                   !.received = @ \cup {r.path},
                                   !.chan = Tail(@)]
               /\ res' = res \cup {<<hist.scans, r.path, sc.root>>}
       IN  Handle(ReceivedIn([World EXCEPT !.album_ok = FALSE]))
    /\ UNCHANGED <<fs, hist>>

NextDecay ==
    \/ \E p \in Paths : FsRevoke(p)
    \/ \E p \in Paths, c \in DecayContents : FsRewrite(p, c)
    \/ ScanStart
    \/ \E r \in Roots : StartRoot(r)
    \/ \E p \in Paths : WalkFile(p)
    \/ Consume
    \/ ConsumeAlbumFails
    \/ ConsumerExit
    \/ RootDone
    \/ RootFailed
    \/ ScanFinish

SpecDecay == InitDecay /\ [][NextDecay]_vars


(***************************************************************************)
(* QueueManager (queue.rs): the play queue and the player it drives.       *)
(* Indices are those of the source, from 0.  The operations are called one *)
(* after the other; each action is a whole method, the lock section and    *)
(* the load_track after it.  res holds the QueueState (q), the track last  *)
(* loaded into the player, whether the build checks integer overflow, the  *)
(* panic of the last operation, the index at which the last operation, if  *)
(* it was add_next beside a current track, put its track, and whether the  *)
(* last operation was a call of next().  The state file written by save()  *)
(* is left out: no operation below reads it.  The model follows the queue  *)
(* up to the first out-of-bounds panic.                                    *)
(***************************************************************************)
\* the tracks the queue holds at most
MaxQueue == 3

\* Option<usize>::None
NoIndex == -1

\* usize::MAX, what 0 - 1 wraps to when overflow is not checked
USIZE_MAX == 2147483647

NoTrack == "none"

TrackPool == {[id |-> "a", provider_id |-> "p"], [id |-> "b", provider_id |-> "q"]}

RepeatModes == {"Off", "All", "One"}

\* vec[i]
Nth(vec, i) == vec[i + 1]

\* the orders indices.shuffle(&mut rng) can leave 0..n in
Shuffles(n) ==
    {s \in [1..n -> 0..(n - 1)] : \A i, j \in 1..n : s[i] = s[j] => i = j}

\* QueueState::default()
DefaultQueue ==
    [tracks |-> <<>>, current_index |-> NoIndex, repeat_mode |-> "Off",
     shuffle |-> FALSE, shuffled_indices |-> <<>>]

\* fn recalc_shuffle, order being what the shuffle left
recalc_shuffle(q, order) == [q EXCEPT !.shuffled_indices = order]

\* len - 1 in a build without overflow checks
LenMinus1(len) == IF len = 0 THEN USIZE_MAX ELSE len - 1

\* if state.shuffle { state.shuffled_indices.push(len - 1) }
PushLast(q) ==
    IF q.shuffle
    THEN [q EXCEPT !.shuffled_indices = Append(@, LenMinus1(Len(q.tracks)))]
    ELSE q

\* add_track, the lock section
add_track(q, track) == PushLast([q EXCEPT !.tracks = Append(@, track)])

\* add_tracks, the lock section
add_tracks(q, tracks) == PushLast([q EXCEPT !.tracks = @ \o tracks])

\* Vec::insert(i, x)
Insert(vec, i, x) == SubSeq(vec, 1, i) \o <<x>> \o SubSeq(vec, i + 1, Len(vec))

\* Vec::remove(i)
RemoveAt(vec, i) == SubSeq(vec, 1, i) \o SubSeq(vec, i + 2, Len(vec))

\* add_next, the lock section
add_next(q, track) ==
    IF q.current_index # NoIndex /\ ~q.shuffle
    THEN [q EXCEPT !.tracks = Insert(@, q.current_index + 1, track)]
    ELSE PushLast([q EXCEPT !.tracks = Append(@, track)])

\* the index add_next gives its track
AddedAt(q) ==
    IF q.current_index # NoIndex /\ ~q.shuffle THEN q.current_index + 1
    ELSE Len(q.tracks)

\* remove, the lock section
remove(q, index, order) ==
    IF index < Len(q.tracks)
    THEN LET q1 == [q EXCEPT !.tracks = RemoveAt(@, index)]
             q2 == IF q.shuffle THEN recalc_shuffle(q1, order) ELSE q1
             curr == q.current_index
         IN  [q2 EXCEPT !.current_index =
                 IF curr = NoIndex THEN NoIndex
                 ELSE IF index < curr THEN curr - 1
                 ELSE IF index = curr
                      THEN (IF curr > 0 THEN curr - 1 ELSE NoIndex)
                 ELSE curr]
    ELSE q

\* clear, the lock section
clear(q) ==
    [q EXCEPT !.tracks = <<>>, !.shuffled_indices = <<>>,
              !.current_index = NoIndex]

\* toggle_shuffle, the lock section
toggle_shuffle(q, order) ==
    IF q.shuffle THEN [q EXCEPT !.shuffle = FALSE, !.shuffled_indices = <<>>]
    ELSE recalc_shuffle([q EXCEPT !.shuffle = TRUE], order)

\* play_now, the lock section
play_now(q, track) ==
    [q EXCEPT !.tracks = <<track>>, !.current_index = 0,
              !.shuffled_indices = IF q.shuffle THEN <<0>> ELSE <<>>]

\* the tracks remove_tracks_by_provider keeps, in order
RECURSIVE KeepOthers(_, _)
KeepOthers(tracks, provider_id) ==
    IF tracks = <<>> THEN <<>>
    ELSE IF Head(tracks).provider_id # provider_id
         THEN <<Head(tracks)>> \o KeepOthers(Tail(tracks), provider_id)
         ELSE KeepOthers(Tail(tracks), provider_id)

\* remove_tracks_by_provider, the lock section
remove_tracks_by_provider(q, provider_id, order) ==
    LET curr == q.current_index
        new_tracks == KeepOthers(q.tracks, provider_id)
        kept == curr # NoIndex /\ curr < Len(q.tracks)
                /\ Nth(q.tracks, curr).provider_id # provider_id
        new_current_index ==
            IF kept
            THEN Len(KeepOthers(SubSeq(q.tracks, 1, curr + 1), provider_id)) - 1
            ELSE NoIndex
        q1 == [q EXCEPT !.tracks = new_tracks,
                        !.current_index = new_current_index]
    IN  IF new_tracks = <<>>
        THEN [q1 EXCEPT !.current_index = NoIndex, !.shuffled_indices = <<>>]
        ELSE IF q.shuffle THEN recalc_shuffle(q1, order) ELSE q1

\* shuffled_indices.iter().position(|&r| r == curr_raw), from 0; NoIndex
\* when there is none
Position(vec, x) ==
    IF \E i \in 1..Len(vec) : vec[i] = x
    THEN (CHOOSE i \in 1..Len(vec) :
            vec[i] = x /\ \A j \in 1..(i - 1) : vec[j] # x) - 1
    ELSE NoIndex

\* shuffled_indices.first().cloned()
First(vec) == IF vec = <<>> THEN NoIndex ELSE vec[1]

\* next_idx of next()
next_idx(q) ==
    LET curr == q.current_index
        len == Len(q.tracks)
        pos_in_shuffle == Position(q.shuffled_indices, curr)
    IN  IF q.shuffle
        THEN IF curr # NoIndex
             THEN IF pos_in_shuffle # NoIndex
                  THEN IF pos_in_shuffle + 1 < Len(q.shuffled_indices)
                       THEN Nth(q.shuffled_indices, pos_in_shuffle + 1)
                       ELSE IF q.repeat_mode = "All"
                            THEN Nth(q.shuffled_indices, 0)
                            ELSE NoIndex
                  ELSE First(q.shuffled_indices)
             ELSE First(q.shuffled_indices)
        ELSE IF curr # NoIndex
             THEN IF curr + 1 < len THEN curr + 1
                  ELSE IF q.repeat_mode = "All" /\ len # 0 THEN 0
                  ELSE NoIndex
             ELSE IF len # 0 THEN 0 ELSE NoIndex

InitQueue ==
    /\ fs \in FilesOf({}, {})
    /\ db = EmptyDb
    /\ covers = {}
    /\ nextId = 1
    /\ sc = IdleScan
    /\ hist = NoHistory
    /\ \E checks \in BOOLEAN :
          res = [q |-> DefaultQueue, player |-> NoTrack,
                 overflow_checks |-> checks, panic |-> "none",
                 added_next |-> NoIndex, by_next |-> FALSE]

QueueFrame == UNCHANGED <<fs, db, covers, nextId, sc, hist>>

\* the queue accepts a call
Serving == res.panic # "index"

\* the method ends without a panic and leaves the queue as q
Returns(q) ==
    res' = [res EXCEPT !.q = q, !.panic = "none", !.added_next = NoIndex, !.by_next = FALSE]

\* load_track(track, true): the player loads the stream when a provider
\* resolves it (ok)
Loaded(track, ok) == IF ok THEN track.id ELSE res.player

QAddTrack(track) ==
    /\ Serving /\ Len(res.q.tracks) < MaxQueue
    /\ Returns(add_track(res.q, track))
    /\ QueueFrame

\* add_tracks: with an empty queue, no track and shuffle on, len - 1
\* panics where overflow is checked and wraps where it is not
QAddTracks(tracks) ==
    /\ Serving /\ Len(res.q.tracks) + Len(tracks) <= MaxQueue
    /\ Len(res.q.shuffled_indices) <= MaxQueue
    /\ IF res.q.shuffle /\ Len(res.q.tracks) + Len(tracks) = 0
          /\ res.overflow_checks
       THEN res' = [res EXCEPT !.panic = "overflow", !.added_next = NoIndex, !.by_next = FALSE]
       ELSE Returns(add_tracks(res.q, tracks))
    /\ QueueFrame

QAddNext(track) ==
    /\ Serving /\ Len(res.q.tracks) < MaxQueue
    /\ res' = [res EXCEPT !.q = add_next(res.q, track), !.panic = "none",
                          !.by_next = FALSE,
                          !.added_next = IF res.q.current_index = NoIndex
                                         THEN NoIndex ELSE AddedAt(res.q)]
    /\ QueueFrame

QRemove(index) ==
    /\ Serving
    /\ \E order \in Shuffles(IF index < Len(res.q.tracks)
                             THEN Len(res.q.tracks) - 1 ELSE 0) :
          Returns(remove(res.q, index, order))
    /\ QueueFrame

QClear ==
    /\ Serving
    /\ Returns(clear(res.q))
    /\ QueueFrame

QToggleShuffle ==
    /\ Serving
    /\ \E order \in Shuffles(Len(res.q.tracks)) :
          Returns(toggle_shuffle(res.q, order))
    /\ QueueFrame

\* set_repeat
QSetRepeat(mode) ==
    /\ Serving /\ mode # res.q.repeat_mode
    /\ Returns([res.q EXCEPT !.repeat_mode = mode])
    /\ QueueFrame

QPlayNow(track, ok) ==
    /\ Serving
    /\ res' = [res EXCEPT !.q = play_now(res.q, track), !.panic = "none",
                          !.added_next = NoIndex, !.by_next = FALSE,
                          !.player = Loaded(track, ok)]
    /\ QueueFrame

QPlayIndex(index, ok) ==
    /\ Serving
    /\ IF index < Len(res.q.tracks)
       THEN res' = [res EXCEPT !.q.current_index = index, !.panic = "none",
                               !.added_next = NoIndex, !.by_next = FALSE,
                               !.player = Loaded(Nth(res.q.tracks, index), ok)]
       ELSE Returns(res.q)
    /\ QueueFrame

\* next(): state.tracks[idx] panics when idx is not an index of tracks;
\* direct: the call is that of the caller, not of on_playback_ended
Advance(ok, direct) ==
    LET idx == next_idx(res.q)
        Called(r) == res' = [r EXCEPT !.panic = "none", !.added_next = NoIndex,
                                      !.by_next = direct]
    IN  IF idx = NoIndex THEN Called(res)
        ELSE IF idx >= Len(res.q.tracks)
        THEN res' = [res EXCEPT !.q.current_index = idx, !.panic = "index",
                                !.added_next = NoIndex, !.by_next = direct]
        ELSE Called([res EXCEPT !.q.current_index = idx,
                                !.player = Loaded(Nth(res.q.tracks, idx), ok)])

QNext(ok) ==
    /\ Serving
    /\ Advance(ok, TRUE)
    /\ QueueFrame

\* prev(): state.tracks[curr - 1]
QPrev(ok) ==
    /\ Serving
    /\ LET curr == res.q.current_index
       IN  IF curr # NoIndex /\ curr > 0
           THEN IF curr - 1 >= Len(res.q.tracks)
                THEN res' = [res EXCEPT !.q.current_index = curr - 1,
                                        !.panic = "index", !.added_next = NoIndex, !.by_next = FALSE]
                ELSE res' = [res EXCEPT !.q.current_index = curr - 1,
                                        !.panic = "none", !.added_next = NoIndex, !.by_next = FALSE,
                                        !.player = Loaded(Nth(res.q.tracks, curr - 1), ok)]
           ELSE Returns(res.q)
    /\ QueueFrame

\* the player reports Ended: on_playback_ended()
QPlaybackEnded(ok) ==
    /\ Serving /\ res.player # NoTrack
    /\ LET curr == res.q.current_index
       IN  IF res.q.repeat_mode = "One" /\ curr # NoIndex
              /\ curr < Len(res.q.tracks)
           THEN res' = [res EXCEPT !.panic = "none", !.added_next = NoIndex, !.by_next = FALSE,
                                   !.player = Loaded(Nth(res.q.tracks, curr), ok)]
           ELSE Advance(ok, FALSE)
    /\ QueueFrame

QRemoveByProvider(provider_id) ==
    /\ Serving
    /\ \E order \in Shuffles(Len(KeepOthers(res.q.tracks, provider_id))) :
          Returns(remove_tracks_by_provider(res.q, provider_id, order))
    /\ QueueFrame

\* what add_tracks is called with
TrackLists ==
    {<<>>} \cup {<<t>> : t \in TrackPool} \cup {<<t, u>> : t, u \in TrackPool}

NextQueue ==
    \/ \E t \in TrackPool : QAddTrack(t)
    \/ \E ts \in TrackLists : QAddTracks(ts)
    \/ \E t \in TrackPool : QAddNext(t)
    \/ \E i \in 0..MaxQueue : QRemove(i)
    \/ QClear
    \/ QToggleShuffle
    \/ \E m \in RepeatModes : QSetRepeat(m)
    \/ \E t \in TrackPool, ok \in BOOLEAN : QPlayNow(t, ok)
    \/ \E i \in 0..MaxQueue, ok \in BOOLEAN : QPlayIndex(i, ok)
    \/ \E ok \in BOOLEAN : QNext(ok)
    \/ \E ok \in BOOLEAN : QPrev(ok)
    \/ \E ok \in BOOLEAN : QPlaybackEnded(ok)
    \/ \E pid \in {"p", "q"} : QRemoveByProvider(pid)

SpecQueue == InitQueue /\ [][NextQueue]_vars


(***************************************************************************)
(* Concurrent calls on one QueueManager: the commands next(), prev() and   *)
(* play_index() and the event task's on_playback_ended() run as tasks of   *)
(* the runtime.  Each holds the state mutex for its lock section only; the *)
(* load_track and the save() that follow run after the guard is dropped.   *)
(* Every stream resolves, so every load_track reaches player.load.  res    *)
(* holds the QueueState (q), the track last loaded into the player and the *)
(* tasks: the method of each, its position and the track it cloned.        *)
(***************************************************************************)
\* the concurrent calls
QueueCallers == 2

ThreeTracks ==
    <<[id |-> "a", provider_id |-> "p"], [id |-> "b", provider_id |-> "p"],
      [id |-> "c", provider_id |-> "p"]>>

Methods == {"next", "prev", "play_index", "on_playback_ended"}

\* a queue of three tracks of which one is current and loaded
InitPlayer ==
    /\ fs \in FilesOf({}, {})
    /\ db = EmptyDb
    /\ covers = {}
    /\ nextId = 1
    /\ sc = IdleScan
    /\ hist = NoHistory
    /\ \E curr \in 0..2, mode \in RepeatModes, ms \in [1..QueueCallers -> Methods],
          ix \in [1..QueueCallers -> 0..2] :
          res = [q |-> [DefaultQueue EXCEPT !.tracks = ThreeTracks,
                                            !.current_index = curr,
                                            !.repeat_mode = mode],
                 player |-> Nth(ThreeTracks, curr).id,
                 task |-> [i \in 1..QueueCallers |->
                             [method |-> ms[i], pc |-> "start",
                              index |-> IF ms[i] = "play_index" THEN ix[i] ELSE 0,
                              track |-> NoTrack, saves |-> FALSE]]]

PlayerFrame == UNCHANGED <<fs, db, covers, nextId, sc, hist>>

\* the lock section set current_index to idx and cloned tracks[idx]
Cloned(i, idx, saves) ==
    res' = [res EXCEPT !.q.current_index = idx,
                       !.task[i].pc = "load",
                       !.task[i].track = Nth(res.q.tracks, idx).id,
                       !.task[i].saves = saves]

\* the method returns from its lock section
Done(i) == res' = [res EXCEPT !.task[i].pc = "done"]

\* next(), the lock section
LockNext(i) ==
    /\ res.task[i].pc = "start" /\ res.task[i].method = "next"
    /\ IF next_idx(res.q) = NoIndex THEN Done(i)
       ELSE Cloned(i, next_idx(res.q), TRUE)
    /\ PlayerFrame

\* prev(), the lock section
LockPrev(i) ==
    /\ res.task[i].pc = "start" /\ res.task[i].method = "prev"
    /\ IF res.q.current_index # NoIndex /\ res.q.current_index > 0
       THEN Cloned(i, res.q.current_index - 1, TRUE)
       ELSE Done(i)
    /\ PlayerFrame

\* play_index(index), the lock section
LockPlayIndex(i) ==
    /\ res.task[i].pc = "start" /\ res.task[i].method = "play_index"
    /\ IF res.task[i].index < Len(res.q.tracks)
       THEN Cloned(i, res.task[i].index, TRUE)
       ELSE Done(i)
    /\ PlayerFrame

\* on_playback_ended(), the lock section: with RepeatMode::One the current
\* track is loaded again, else the guard is dropped and next() is called
LockEnded(i) ==
    /\ res.task[i].pc = "start" /\ res.task[i].method = "on_playback_ended"
    /\ IF res.q.repeat_mode = "One" /\ res.q.current_index # NoIndex
          /\ res.q.current_index < Len(res.q.tracks)
       THEN Cloned(i, res.q.current_index, FALSE)
       ELSE res' = [res EXCEPT !.task[i].method = "next"]
    /\ PlayerFrame

\* load_track(&track, true): player.load(stream, true)
LoadTrack(i) ==
    /\ res.task[i].pc = "load"
    /\ res' = [res EXCEPT !.player = res.task[i].track,
                          !.task[i].pc = IF res.task[i].saves THEN "save"
                                         ELSE "done"]
    /\ PlayerFrame

\* let _ = self.save().await
SaveState(i) ==
    /\ res.task[i].pc = "save"
    /\ Done(i)
    /\ PlayerFrame

NextPlayer ==
    \/ \E i \in 1..QueueCallers : LockNext(i)
    \/ \E i \in 1..QueueCallers : LockPrev(i)
    \/ \E i \in 1..QueueCallers : LockPlayIndex(i)
    \/ \E i \in 1..QueueCallers : LockEnded(i)
    \/ \E i \in 1..QueueCallers : LoadTrack(i)
    \/ \E i \in 1..QueueCallers : SaveState(i)

SpecPlayer == InitPlayer /\ [][NextPlayer]_vars


(***************************************************************************)
(* The resolver under concurrent callers.  Each caller does what the       *)
(* consumer does for one new file with one artist: resolve_artist_single,  *)
(* then resolve_album with the id it got.  Every SQL statement is one      *)
(* step, so the statements of different callers interleave freely, as      *)
(* they do on the shared connection pool.                                  *)
(***************************************************************************)
Foo == <<"F","o","o">>
FooLower == <<"f","o","o">>
Bar == <<"B","a","r">>

CallNames == {Foo, FooLower, Bar}
CallTitles == {<<"Z">>}

Callers == 1..NumCallers

NewCaller(name, title) ==
    [name |-> name, title |-> title, pc |-> "artist_select", artist_id |-> 0,
     album_id |-> 0, artist_raced |-> FALSE, album_raced |-> FALSE]

InitResolve ==
    /\ fs = [p \in Paths |-> NoFile]
    /\ db = EmptyDb
    /\ covers = {}
    /\ nextId = 1
    /\ sc = IdleScan
    /\ hist = NoHistory
    /\ res \in [Callers -> {NewCaller(n, t) : n \in CallNames, t \in CallTitles}]

At(i, pc) == res[i].pc = pc

\* resolve_artist_single: SELECT id, name FROM artists WHERE name = ? COLLATE
\* NOCASE; a row is returned, or the caller goes on to insert
ArtistSelect(i) ==
    /\ At(i, "artist_select")
    /\ LET existing == SelectArtist(db, Trim(res[i].name))
       IN  \/ /\ existing = {}
              /\ res' = [res EXCEPT ![i].pc = "artist_insert"]
           \/ \E a \in existing :
                res' = [res EXCEPT ![i].pc = "album_select", ![i].artist_id = a.id]
    /\ UNCHANGED <<fs, db, covers, nextId, sc, hist>>

\* resolve_artist_single: INSERT OR IGNORE with a fresh uuid; rows_affected
\* decides between the new id and the re-select
ArtistInsert(i) ==
    /\ At(i, "artist_insert")
    /\ db' = InsertArtist(db, nextId, Trim(res[i].name))
    /\ nextId' = nextId + 1
    /\ res' = IF db' # db
              THEN [res EXCEPT ![i].pc = "album_select", ![i].artist_id = nextId]
              ELSE [res EXCEPT ![i].pc = "artist_reselect", ![i].artist_raced = TRUE]
    /\ UNCHANGED <<fs, covers, sc, hist>>

\* resolve_artist_single: the re-select, fetch_one
ArtistReselect(i) ==
    /\ At(i, "artist_reselect")
    /\ \E a \in SelectArtist(db, Trim(res[i].name)) :
         res' = [res EXCEPT ![i].pc = "album_select", ![i].artist_id = a.id]
    /\ UNCHANGED <<fs, db, covers, nextId, sc, hist>>

\* resolve_album: SELECT id FROM albums WHERE title = ? AND artist_id = ?
AlbumSelect(i) ==
    /\ At(i, "album_select")
    /\ LET existing == SelectAlbum(db, res[i].title, res[i].artist_id)
       IN  \/ /\ existing = {}
              /\ res' = [res EXCEPT ![i].pc = "album_insert"]
           \/ \E al \in existing :
                res' = [res EXCEPT ![i].pc = "album_link", ![i].album_id = al.id]
    /\ UNCHANGED <<fs, db, covers, nextId, sc, hist>>

\* resolve_album: INSERT OR IGNORE with a fresh uuid (the callers have no
\* cover image)
AlbumInsert(i) ==
    /\ At(i, "album_insert")
    /\ db' = InsertAlbum(db, nextId, res[i].title, res[i].artist_id, NoVal)
    /\ nextId' = nextId + 1
    /\ res' = IF db' # db
              THEN [res EXCEPT ![i].pc = "album_link", ![i].album_id = nextId]
              ELSE [res EXCEPT ![i].pc = "album_reselect", ![i].album_raced = TRUE]
    /\ UNCHANGED <<fs, covers, sc, hist>>

\* resolve_album: the re-select, fetch_one
AlbumReselect(i) ==
    /\ At(i, "album_reselect")
    /\ \E al \in SelectAlbum(db, res[i].title, res[i].artist_id) :
         res' = [res EXCEPT ![i].pc = "album_link", ![i].album_id = al.id]
    /\ UNCHANGED <<fs, db, covers, nextId, sc, hist>>

\* resolve_album: INSERT OR IGNORE INTO album_artists for the one artist,
\* then Ok(album_id)
AlbumLink(i) ==
    /\ At(i, "album_link")
    /\ db' = LinkAlbumArtists(db, res[i].album_id, <<res[i].artist_id>>)
    /\ res' = [res EXCEPT ![i].pc = "done"]
    /\ UNCHANGED <<fs, covers, nextId, sc, hist>>

NextResolve ==
    \/ \E i \in Callers : ArtistSelect(i)
    \/ \E i \in Callers : ArtistInsert(i)
    \/ \E i \in Callers : ArtistReselect(i)
    \/ \E i \in Callers : AlbumSelect(i)
    \/ \E i \in Callers : AlbumInsert(i)
    \/ \E i \in Callers : AlbumReselect(i)
    \/ \E i \in Callers : AlbumLink(i)

SpecResolve == InitResolve /\ [][NextResolve]_vars

(***************************************************************************)
(* Properties of scan().                                                   *)
(***************************************************************************)
\* the rows of the catalog proper
Catalog(d) ==
    [artists |-> d.artists, albums |-> d.albums, tracks |-> d.tracks,
     track_artists |-> d.track_artists, album_artists |-> d.album_artists]

\* The last scan() returned Ok, the one before it returned Ok too and walked
\* the same roots, and no file has changed since the last one returned.
AfterTwoScans ==
    /\ Idle /\ hist.result = "ok" /\ hist.prev_result = "ok" /\ hist.log = <<>>
    /\ hist.prev_roots = hist.before.library_roots

\* the only event between the last two scans
OnlyEvent(op) == Len(hist.scan_log) = 1 /\ hist.scan_log[1].op = op

\* C1: a scan() that follows a completed scan() with no change to the files
\* or the roots in between leaves the catalog exactly as the first left it:
\* the same artist, album and track rows with the same ids, the same links.
C1_Idempotent ==
    (AfterTwoScans /\ hist.scan_log = <<>>) => Catalog(db) = Catalog(hist.before)

\* two files are catalogued and the second scan changed nothing
C1_Witness ==
    /\ AfterTwoScans /\ hist.scan_log = <<>>
    /\ Cardinality(db.tracks) = 2
    /\ db.library_roots = Roots

\* C2: when the only change since a completed scan is that a catalogued file
\* was removed, the next scan removes exactly that file's track row; the other
\* track rows (ids, fields, liked, play_count) and all artist and album rows
\* are as before.
C2_Deletion ==
    (AfterTwoScans /\ OnlyEvent("remove")
        /\ TrackAt(hist.before, hist.scan_log[1].path) # {})
    => /\ db.tracks = hist.before.tracks \ TrackAt(hist.before, hist.scan_log[1].path)
       /\ db.artists = hist.before.artists
       /\ db.albums = hist.before.albums
       /\ db.album_artists = hist.before.album_artists

\* a catalogued file was removed while another stayed, and the scan ran
C2_Witness ==
    /\ AfterTwoScans /\ OnlyEvent("remove")
    /\ TrackAt(hist.before, hist.scan_log[1].path) # {}
    /\ Cardinality(hist.before.tracks) = 2
    /\ Cardinality(db.tracks) = 1

\* the files the running (or last) scan found in the catalog with the mtime
\* they have on disk
Unchanged ==
    {p \in Paths : Present(fs[p]) /\ <<p, fs[p].mtime>> \in ExistingMap(hist.before)}

\* C3: a file whose path is in the catalog at scan start with the mtime it has
\* on disk is never handed to parse_metadata, only ever travels as a Found
\* result, and its track row is the same row throughout and after the scan.
C3_FingerprintSkip ==
    (hist.result # "none" /\ hist.log = <<>>)
    => \A p \in Unchanged :
        /\ p \notin sc.parsed
        /\ \A i \in 1..Len(sc.chan) :
             sc.chan[i].path = p => sc.chan[i].kind = "Found"
        /\ \A i \in 1..Len(sc.consumer.pending_tracks) :
             sc.consumer.pending_tracks[i].path # p
        /\ TrackAt(db, p) = TrackAt(hist.before, p)

\* a scan that skipped one file and parsed the other has completed
C3_Witness ==
    /\ Idle /\ hist.result = "ok" /\ hist.log = <<>>
    /\ Unchanged # {}
    /\ sc.parsed # {}
    /\ Cardinality(db.tracks) = 2

\* the path lies under a root that the running (or last) scan walks
InLibrary(p) == \E r \in hist.before.library_roots : p \in Under(r)

C5_PathUnique ==
    \A t1, t2 \in db.tracks : t1.path = t2.path => t1 = t2

\* both roots are registered and one scan has upserted the file under both
\* of them twice, once per root
C5_Witness ==
    /\ Idle /\ hist.result = "ok"
    /\ hist.before.library_roots = Roots
    /\ "/m/s/t.flac" \in sc.parsed
    /\ TrackAt(db, "/m/s/t.flac") # {}

\* the tracks the last scan upserted
Catalogued == {t \in db.tracks : t.path \in sc.parsed}

\* C9: after a completed scan, every artist linked to a track the scan
\* catalogued is linked to the track's album as well.
C9_AlbumLinksAllArtists ==
    (Idle /\ hist.result = "ok")
    => \A t \in Catalogued : \A l \in db.track_artists :
          l[1] = t.id => <<t.album_id, l[2]>> \in db.album_artists

\* the files under a walked root that parse_metadata accepts
Parseable ==
    {p \in Paths : Present(fs[p]) /\ InLibrary(p) /\ parse_metadata(p, fs[p]).ok}

\* the parse gives no artist name: the default is kept, or splitting leaves
\* no fragment
NoArtistName(meta) == meta.artists = <<>> \/ meta.artists = <<UnknownArtist>>

\* C10: once a scan has returned, it returned Ok, and every parseable file
\* has a track row with at least one artist link whose album has at least one
\* artist link; a file without an artist name is linked to "Unknown Artist".
C10_ArtistLinkOrSentinel ==
    (Idle /\ hist.result # "none" /\ hist.log = <<>>)
    => /\ hist.result = "ok"
       /\ \A p \in Parseable :
            /\ TrackAt(db, p) # {}
            /\ \A t \in TrackAt(db, p) :
                 /\ \E l \in db.track_artists : l[1] = t.id
                 /\ \E l \in db.album_artists : l[1] = t.album_id
                 /\ NoArtistName(parse_metadata(p, fs[p]))
                    => \E a \in db.artists :
                         a.name = UnknownArtist /\ <<t.id, a.id>> \in db.track_artists


\* the paths of the results waiting in the channel
InChannel == {sc.chan[i].path : i \in 1..Len(sc.chan)}

\* C12: the channel never holds more than its capacity, and every result
\* the walk of the current root has sent is either waiting in the channel,
\* once, or has been received by the consumer, and not both.
C12_BackpressureNoLoss ==
    /\ Len(sc.chan) <= CHAN_CAP
    /\ Cardinality(InChannel) = Len(sc.chan)
    /\ sc.emitted = sc.received \cup InChannel
    /\ sc.received \cap InChannel = {}

\* the files under a walked root that lofty can read
Decodable ==
    {p \in Paths : Present(fs[p]) /\ InLibrary(p) /\ Content(fs[p].content).ok}

\* the files under a walked root whose entry is an Err or that lofty
\* cannot read
Failing ==
    {p \in Paths : Present(fs[p]) /\ InLibrary(p) /\ ~Content(fs[p].content).ok}

\* no readable file of the walk makes the consumer index an empty artist list
NoIndexPanic == \A p \in Decodable : ~IndexPanics(parse_metadata(p, fs[p]))

\* C13: when a scan has returned over files of which some cannot be walked
\* or parsed (and none trips the empty artist list), it returned Ok, every
\* other file has its track row with the file's mtime, and the failing
\* files have none.
C13_EntryErrorsNotFatal ==
    (Idle /\ hist.result # "none" /\ hist.log = <<>> /\ Failing # {}
        /\ NoIndexPanic)
    => /\ hist.result = "ok"
       /\ \A p \in Decodable :
            \E t \in TrackAt(db, p) : t.mtime = fs[p].mtime
       /\ \A p \in Failing : TrackAt(db, p) = {}

\* a scan walked a corrupt file, an unreadable entry and a good file
C13_Witness ==
    /\ Idle /\ hist.result = "ok" /\ hist.log = <<>> /\ NoIndexPanic
    /\ \E p, q \in Failing : fs[p].content = "corrupt" /\ fs[q].content = "denied"
    /\ \E p \in Decodable : TrackAt(db, p) # {}

\* C14: when a scan during which commits of track batches failed has
\* returned, it returned Ok; the files of the failed batches have the rows
\* they had before the scan (or none), and every other readable file has its
\* track row with the file's mtime, whether its batch was committed before
\* or after a failed one.
C14_BatchScopedFailure ==
    (Idle /\ hist.result # "none" /\ hist.log = <<>> /\ hist.failed # {})
    => /\ hist.result = "ok"
       /\ \A p \in Decodable :
            IF p \in hist.failed
            THEN TrackAt(db, p) = TrackAt(hist.before, p)
            ELSE \E t \in TrackAt(db, p) : t.mtime = fs[p].mtime

\* a scan lost its first batch, committed a later one and returned
C14_Witness ==
    /\ Idle /\ hist.result = "ok" /\ hist.log = <<>>
    /\ Cardinality(hist.failed) = BATCH_SIZE
    /\ hist.recovered # {}
    /\ \A p \in hist.recovered : TrackAt(db, p) # {}
    /\ \A p \in hist.failed : TrackAt(db, p) = {}

\* the artist the scenario credits the file at p to
CreditedAt(p) == IF fs[p].content = "Y_Z_byX" THEN <<"Y">> ELSE <<"X">>

\* the names of the artists that track_artists links to track t
LinkedNames(t) ==
    {a.name : a \in {a \in db.artists : <<t.id, a.id>> \in db.track_artists}}

\* C15: scanning an empty catalog with one root holding three new files, two
\* by X and one by Y, all of album Z by X, yields in every processing order
\* exactly two artist rows, one album row whose artist_id is X's id and
\* three track rows, each linked to exactly its own file's artist.  The
\* scans meant are those that began with the root registered.
C15_ThreeFileScenario ==
    (Idle /\ hist.result = "ok" /\ hist.before.library_roots = {"/m"})
    => /\ {a.name : a \in db.artists} = {<<"X">>, <<"Y">>}
       /\ Cardinality(db.artists) = 2
       /\ Cardinality(db.albums) = 1
       /\ \A al \in db.albums :
             /\ al.title = <<"Z">>
             /\ \E a \in db.artists : a.name = <<"X">> /\ a.id = al.artist_id
       /\ Cardinality(db.tracks) = 3
       /\ \A p \in Paths :
             /\ Cardinality(TrackAt(db, p)) = 1
             /\ \A t \in TrackAt(db, p) :
                   /\ LinkedNames(t) = {CreditedAt(p)}
                   /\ \A l \in db.track_artists :
                         l[1] = t.id => \E a \in db.artists : a.id = l[2]

C15_Witness ==
    /\ Idle /\ hist.result = "ok" /\ hist.scans = 1
    /\ Cardinality(db.tracks) = 3
    /\ \E t \in TrackAt(db, "/m/s/u.flac") : LinkedNames(t) = {<<"Y">>}


(***************************************************************************)
(* Properties of split_artists.                                            *)
(***************************************************************************)
\* the pieces of names joined by separators when only those in delims
\* separate: names joined by any other separator stay one piece
RECURSIVE Pieces(_, _, _)
Pieces(parts, seps, delims) ==
    IF Len(parts) = 1 THEN parts
    ELSE IF seps[1] \in delims
         THEN <<parts[1]>> \o Pieces(Tail(parts), Tail(seps), delims)
         ELSE Pieces(<<parts[1] \o seps[1] \o parts[2]>> \o Tail(Tail(parts)),
                     Tail(seps), delims)

\* each piece trimmed, the empty ones dropped, the order kept
Kept(pieces) ==
    SelectSeq([i \in 1..Len(pieces) |-> Trim(pieces[i])], LAMBDA f : f # <<>>)

\* the artist row a name resolves to
ArtistNamed(name) == {a \in db.artists : EqNoCase(a.name, name)}

\* the artists of the tag of the file at p, as split_artists returns them
TagArtists(p) == split_artists(Content(fs[p].content).artist)

\* every track row is linked to exactly the artists of its file's tag, the
\* first of them as primary artist
LinkedToSplit ==
    \A p \in Paths : \A t \in TrackAt(db, p) :
       /\ TagArtists(p) # <<>>
       /\ \A i \in 1..Len(TagArtists(p)) :
             \E a \in ArtistNamed(TagArtists(p)[i]) :
                <<t.id, a.id>> \in db.track_artists
       /\ \A l \in db.track_artists :
             l[1] = t.id =>
                \E i \in 1..Len(TagArtists(p)) :
                   \E a \in ArtistNamed(TagArtists(p)[i]) : a.id = l[2]
       /\ \E a \in ArtistNamed(TagArtists(p)[1]) : a.id = t.artist_id

\* C16: split_artists splits on " feat. ", " ft. ", " & ", " / ", ", " and
\* also on ";": of names joined by these separators it returns the names
\* trimmed, the empty ones dropped, in order; and every track the scan
\* writes is linked to every artist its tag splits into, the first being
\* its primary artist.
C16_SplitArtists ==
    /\ res # <<>> =>
          res.out = Kept(Pieces(res.parts, res.seps, Delimiters \cup {Semicolon}))
    /\ LinkedToSplit

C16_Witness ==
    /\ res # <<>>
    /\ res.parts = <<<<"A">>, <<" ","B"," ">>, <<>>>>
    /\ res.seps = <<<<" ","f","e","a","t","."," ">>, <<" ","/"," ">>>>
    /\ res.out = <<<<"A">>, <<"B">>>>
    /\ fs["/m/s/t.flac"].content = "A/B"
    /\ \E t \in TrackAt(db, "/m/s/t.flac") :
          Cardinality({l \in db.track_artists : l[1] = t.id}) = 2

\* C16 as stated: the five delimiters are the only separators
C16_ListedDelimitersOnly ==
    /\ res # <<>> => res.out = Kept(Pieces(res.parts, res.seps, Delimiters))
    /\ LinkedToSplit


(***************************************************************************)
(* Properties of parse_metadata.                                           *)
(***************************************************************************)
\* the file parsed has no usable artist tag
NoArtistTag == ~Content(res.content).tag \/ ~Usable(Content(res.content).artist)

\* the artists a stem name stands for
ArtistsIn(name) ==
    CASE name = <<"A">> -> <<<<"A">>>>
      [] name = <<" ","B"," ">> -> <<<<"B">>>>
      [] name = <<"A"," ","&"," ","B">> -> <<<<"A">>, <<"B">>>>
      [] name = <<>> -> <<>>

\* the value of a tag item, or a default when it is absent or blank
TagOr(item, default) ==
    IF Content(res.content).tag /\ Usable(item) THEN Trim(item) ELSE default

\* C17: for a file with no usable artist tag, a stem "A - B - C" yields the
\* artists that split_artists finds in A, album B and title C; a stem
\* "A - B" yields the artists in A and title B, the album staying that of
\* the tag; any other stem leaves the artist "Unknown Artist" and the title
\* that of the tag, which is the stem only when the tag has no usable title.
C17_FilenameFallback ==
    (res # <<>> /\ NoArtistTag)
    => LET n == Len(res.parts)
           tag == Content(res.content)
       IN  /\ res.meta.ok
           /\ n = 3 => /\ res.meta.artists = ArtistsIn(res.parts[1])
                       /\ res.meta.album = Trim(res.parts[2])
                       /\ res.meta.title = Trim(res.parts[3])
           /\ n = 2 => /\ res.meta.artists = ArtistsIn(res.parts[1])
                       /\ res.meta.title = Trim(res.parts[2])
                       /\ res.meta.album = TagOr(tag.album, UnknownAlbum)
           /\ n \notin {2, 3} =>
                       /\ res.meta.artists = <<UnknownArtist>>
                       /\ res.meta.title = TagOr(tag.title, res.stem)
                       /\ res.meta.album = TagOr(tag.album, UnknownAlbum)

C17_Witness ==
    /\ res # <<>> /\ NoArtistTag
    /\ res.content = "title"
    /\ res.parts = <<<<"A"," ","&"," ","B">>, <<" ","B"," ">>, <<"A">>>>
    /\ res.meta.artists = <<<<"A">>, <<"B">>>>
    /\ res.meta.album = <<"B">>
    /\ res.meta.title = <<"A">>

\* C17 as stated: the artist is the one name A, and any other stem leaves
\* the title equal to the stem
C17_TitleIsStem ==
    (res # <<>> /\ NoArtistTag)
    => LET n == Len(res.parts)
       IN  /\ n = 3 => /\ res.meta.artists = <<Trim(res.parts[1])>>
                       /\ res.meta.album = Trim(res.parts[2])
                       /\ res.meta.title = Trim(res.parts[3])
           /\ n = 2 => /\ res.meta.artists = <<Trim(res.parts[1])>>
                       /\ res.meta.title = Trim(res.parts[2])
           /\ n \notin {2, 3} =>
                       /\ res.meta.artists = <<UnknownArtist>>
                       /\ res.meta.title = res.stem


\* the files for which the walk of the running (or last) scan sends a
\* result: those it finds unchanged and those parse_metadata accepts
Observed ==
    {p \in Paths : /\ Present(fs[p]) /\ InLibrary(p) /\ Readable(fs[p])
                   /\ (p \in Unchanged \/ parse_metadata(p, fs[p]).ok)}

\* the paths that have a track row
TrackPaths(d) == {t.path : t \in d.tracks}

\* C18: a step of scan() removes the track row of a path only after every
\* root has been walked and nothing is left in the channel or pending in
\* the consumer; and when scan() returns Ok, every file the walk observed
\* has a track row.
C18_DeletionLast ==
    [][/\ TrackPaths(db') # TrackPaths(db) \cup TrackPaths(db') =>
             /\ sc.pc = "roots" /\ sc.roots_left = {}
             /\ sc.to_walk = {} /\ sc.chan = <<>>
             /\ sc.consumer.pending_tracks = <<>>
             /\ sc.consumer.pending_found = <<>>
       /\ (sc.pc # "idle" /\ sc'.pc = "idle" /\ hist'.result = "ok") =>
             Observed \subseteq TrackPaths(db')]_vars

C18_Witness ==
    /\ Idle /\ hist.result = "ok"
    /\ TrackPaths(hist.before) \ TrackPaths(db) # {}
    /\ Observed # {}
    /\ Observed \subseteq TrackPaths(db)


\* the files the last scan found catalogued with another mtime than the one
\* on disk, and parsed
Changed ==
    {p \in Parseable : \E t \in TrackAt(hist.before, p) : t.mtime # fs[p].mtime}

\* the ids of the artist rows that the names resolve to
ArtistIds(names) ==
    {a.id : a \in {a \in db.artists :
                     \E i \in 1..Len(names) : EqNoCase(a.name, names[i])}}

\* C19: after a scan that re-scanned a changed file, the file's track row
\* has the id it had before, the title, album and mtime of the new parse,
\* artist_id the first artist of the new parse, and track_artists links to
\* exactly the artists of the new parse.
C19_UpsertRelinks ==
    (Idle /\ hist.result = "ok" /\ hist.log = <<>>)
    => \A p \in Changed :
          LET meta == parse_metadata(p, fs[p])
          IN  /\ Cardinality(TrackAt(db, p)) = 1
              /\ \A t \in TrackAt(db, p) :
                    /\ \E t0 \in TrackAt(hist.before, p) : t0.id = t.id
                    /\ t.title = meta.title
                    /\ t.mtime = fs[p].mtime
                    /\ \E al \in db.albums :
                          al.id = t.album_id /\ al.title = meta.album
                    /\ {t.artist_id} = ArtistIds(<<meta.artists[1]>>)
                    /\ {l[2] : l \in {l \in db.track_artists : l[1] = t.id}}
                          = ArtistIds(meta.artists)
                    /\ Cardinality(ArtistIds(meta.artists)) = Len(meta.artists)

C19_Witness ==
    /\ Idle /\ hist.result = "ok" /\ hist.log = <<>>
    /\ \E p \in Changed : \E t \in TrackAt(db, p) :
          /\ \E l \in hist.before.track_artists :
                l[1] = t.id /\ l \notin db.track_artists
          /\ \E l \in db.track_artists :
                l[1] = t.id /\ l \notin hist.before.track_artists


(***************************************************************************)
(* Properties of the fields the playback side owns.                        *)
(***************************************************************************)
\* C20: no step of scan() changes the liked flag or the play count of a
\* track row that is there before and after the step, and every track row
\* carries the value that the last set_track_liked call for its id wrote,
\* whenever the call ran.
C20_PlaybackFieldsUntouched ==
    [][/\ sc' # sc =>
             \A t \in db.tracks : \A u \in db'.tracks :
                u.id = t.id => u.liked = t.liked /\ u.play_count = t.play_count
       /\ \A u \in db'.tracks : \A e \in res' :
             e.id = u.id => u.liked = e.liked]_vars

C20_Witness ==
    /\ Idle /\ hist.result = "ok" /\ hist.log = <<>>
    /\ \E p \in Changed : \E t \in TrackAt(db, p) :
          /\ t.liked /\ t.play_count > 0
          /\ \E e \in res : e.id = t.id /\ e.scan = hist.scans /\ e.running


\* the files on disk under a root the last scan walked
OnDisk == {p \in Paths : Present(fs[p]) /\ InLibrary(p)}

\* C21: when a track batch failed to commit in one scan and the next scan
\* runs over the same files without a failure, that scan hands every file
\* of the failed batch to parse_metadata again and ends with exactly one
\* track row, with the file's mtime and parsed title, for every file on
\* disk and none for any other path.
C21_SelfHealing ==
    (/\ Idle /\ hist.result = "ok" /\ hist.prev_result = "ok"
     /\ hist.prev_failed # {} /\ hist.failed = {}
     /\ hist.scan_log = <<>> /\ hist.log = <<>>
     /\ hist.prev_roots = hist.before.library_roots)
    => /\ hist.prev_failed \subseteq sc.parsed
       /\ TrackPaths(db) = OnDisk
       /\ \A p \in OnDisk :
             /\ Cardinality(TrackAt(db, p)) = 1
             /\ \A t \in TrackAt(db, p) :
                   /\ t.mtime = fs[p].mtime
                   /\ t.title = parse_metadata(p, fs[p]).title

C21_Witness ==
    /\ Idle /\ hist.result = "ok" /\ hist.prev_result = "ok"
    /\ Cardinality(hist.prev_failed) = BATCH_SIZE /\ hist.failed = {}
    /\ hist.scan_log = <<>> /\ hist.log = <<>>
    /\ hist.prev_roots = hist.before.library_roots
    /\ \E p \in hist.prev_failed : TrackAt(hist.before, p) = {}
    /\ TrackPaths(db) = Paths


(***************************************************************************)
(* Properties of the backfill at the end of scan().                        *)
(***************************************************************************)
\* C22: scan() eventually returns, whatever the backfill's requests are
\* answered with.
C22_ScanReturns == <>(res.pc = "returned")


\* C23: scan() returns only when every registered root has been walked, also
\* when scan_path failed for one of them.
C23_RootIndependence ==
    [][(sc.pc # "idle" /\ sc'.pc = "idle") => sc.roots_left = {}]_vars


\* scan_found before the first root of the running scan is walked
FoundEmptyAtStart ==
    (sc.pc = "roots" /\ sc.roots_left = db.library_roots) => db.scan_found = {}

\* scan_found when the deletion step reads it: paths the walks of this scan
\* have sent a result for
FoundIsCurrent ==
    (sc.pc = "roots" /\ sc.roots_left = {}) =>
        db.scan_found \subseteq Observed

\* scan_found after scan() has returned
FoundDiscarded == (Idle /\ hist.result \in {"ok", "err"}) => db.scan_found = {}

\* C24: scan_found is empty when the first walk of a scan begins, holds only
\* paths observed during the current run when the deletion step consults
\* it, and is empty again once scan() has finished.
C24_FoundSetLifecycle == FoundEmptyAtStart /\ FoundIsCurrent /\ FoundDiscarded


\* the consumer tasks that exist: spawned and not yet finished
Alive == {r \in Roots : res.task[r].at \notin {"none", "done", "panic"}}

\* a step of a walker: an entry leaves its list
WalkerStep == \E r \in Roots : res'.to_walk[r] # res.to_walk[r] /\ res.pc = "walk"

\* C25: during one scan() at most one consumer task exists at any time, it
\* is the task of the root being walked; at most one write transaction of
\* the scan is open at any moment and it belongs to that task; and a step
\* of a walker writes nothing to the catalog.
C25_SingleWriter ==
    /\ [](/\ Cardinality(Alive) <= 1
          /\ Alive \subseteq {res.root}
          /\ Cardinality(res.tx) <= 1
          /\ \A x \in res.tx : x[1] \in Alive)
    /\ [][WalkerStep => db' = db /\ covers' = covers]_vars

\* a second root is walked after the consumer of the first has committed a
\* track batch, and a transaction of the second consumer is open
C25_Witness ==
    /\ res.pc = "walk" /\ res.root = "/m/s"
    /\ res.task["/m"].at = "done" /\ res.task["/m/s"].at = "tracks_tx"
    /\ res.tx = {<<"/m/s", "tracks">>}
    /\ db.tracks # {}


\* C26: in every state of a consumer the track upserts it holds uncommitted
\* number at most BATCH_SIZE and its unflushed found paths at most
\* 5 * BATCH_SIZE, also after a flush has failed.
C26_OneBatchInFlight ==
    \A r \in Roots :
        /\ Len(res.task[r].c.pending_tracks) <= BATCH_SIZE
        /\ Len(res.task[r].c.pending_found) <= BATCH_SIZE * 5


\* the consumer handles a new file with a picture whose album does not
\* exist yet, and the picture could not be written: the file was not in
\* the covers directory and is not there afterwards
CoverWriteFailed ==
    /\ sc.pc = "walk" /\ sc.consumer.state = "run" /\ sc.chan # <<>>
    /\ Head(sc.chan).kind = "New"
    /\ Head(sc.chan).meta.cover_image # NoVal
    /\ ~CoverExists(covers, CoverName(Head(sc.chan).meta.cover_image))
    /\ \A al \in db.albums : al.title # Head(sc.chan).meta.album
    /\ sc'.received # sc.received
    /\ covers' = covers

\* the album al was returned for the file at path and every artist of the
\* track is linked to it, in the pending tuple or in the rows already flushed
AlbumReturned(al, path, d, pending) ==
    \/ \E i \in 1..Len(pending) :
          /\ pending[i].path = path /\ pending[i].album_id = al.id
          /\ \A j \in 1..Len(pending[i].artist_ids) :
                <<al.id, pending[i].artist_ids[j]>> \in d.album_artists
    \/ \E t \in TrackAt(d, path) :
          /\ t.album_id = al.id
          /\ \E l \in d.track_artists : l[1] = t.id
          /\ \A l \in d.track_artists :
                l[1] = t.id => <<al.id, l[2]>> \in d.album_artists

\* C27: when the cover file of a new album cannot be written, resolve_album
\* still inserts the album row, without a cover art reference, links its
\* artists and returns its id; the consumer keeps running, and when scan()
\* returns Ok every file the walk observed has a track row.
C27_CoverWriteFailureTolerated ==
    /\ [][CoverWriteFailed =>
            /\ sc'.consumer.state = "run"
            /\ \E al \in db'.albums :
                  /\ al.title = Head(sc.chan).meta.album
                  /\ al.cover_art = NoVal
                  /\ AlbumReturned(al, Head(sc.chan).path, db',
                                   sc'.consumer.pending_tracks)]_vars
    /\ []((Idle /\ hist.result = "ok") => Observed \subseteq TrackPaths(db))

\* a scan has returned Ok, every file carries a picture and has a track row,
\* and no picture was stored: the albums have no cover art reference
C27_Witness ==
    /\ Idle /\ hist.result = "ok" /\ covers = {}
    /\ \A p \in TwoFiles : /\ Present(fs[p])
                            /\ parse_metadata(p, fs[p]).cover_image # NoVal
                            /\ TrackAt(db, p) # {}
    /\ db.albums # {}
    /\ \A al \in db.albums : al.cover_art = NoVal


\* C28: a usable title or album read from the tag is the title or album of
\* the parsed metadata, whatever the other tag items and the file name are.
C28_TagPrecedence ==
    res # <<>> =>
        LET tag == Content(res.content)
        IN  /\ (tag.tag /\ Usable(tag.title)) => res.meta.title = Trim(tag.title)
            /\ (tag.tag /\ Usable(tag.album)) => res.meta.album = Trim(tag.album)


\* C29: every scan_path call returns; the consumer task ends only after
\* the walk has returned and the channel is drained; and once the consumer
\* has stopped early nothing stays buffered and no send waits.
C29_ScanPathTerminates ==
    /\ (res.pc = "walk") ~> (res.pc = "returned")
    /\ [](/\ res.consumer.at = "done" => res.walker = "done" /\ res.chan = <<>>
          /\ res.consumer.at = "panic" =>
                /\ res.chan = <<>>
                /\ \A i \in res.to_walk : ~SendWaits(res.entries[i]))

\* the channel is full, the walk has an entry left to send and the consumer
\* has not received anything yet
C29_Witness ==
    /\ res.pc = "walk"
    /\ Len(res.chan) = CHAN_CAP
    /\ \E i \in res.to_walk : SendWaits(res.entries[i])
    /\ res.consumer.at = "recv"


\* C30: once two overlapping invocations of scan() have both returned, every
\* track of the catalog they started from whose file is still on disk with
\* the same modification time is in the catalog with the same id.
C30_OverlappingScans ==
    (Idle /\ res.other.pc = "idle" /\ hist.scans >= 2) =>
        \A t \in res.catalog.tracks :
            (Present(fs[t.path]) /\ fs[t.path].mtime = t.mtime) =>
                \E u \in db.tracks : u.path = t.path /\ u.id = t.id


\* flush_found ends with a failed commit
FoundCommitFailed ==
    res.at = "found_tx" /\ res'.at # "found_tx" /\ ~res'.committed

\* flush_found returns from a failed db.begin()
FoundBeginFailed ==
    res.at = "flush_found" /\ FoundFlushDue /\ res'.at # "found_tx"

\* C31: a batch of found paths whose commit fails is discarded, nothing of
\* it is recorded and it is not retried; a batch whose transaction cannot
\* be started is kept and is part of the next flush; and when scan()
\* returns, a track of a discarded batch is deleted unless another batch of
\* the same scan that committed holds its path.
C31_FoundFlushFailure ==
    /\ [][/\ FoundCommitFailed =>
               res'.pending_found = <<>> /\ db' = db
          /\ FoundBeginFailed =>
               res'.pending_found = res.pending_found /\ db' = db
          /\ (res.at = "found_tx" /\ res'.at # "found_tx" /\ res'.committed) =>
               PathsIn(res.pending_found) \subseteq db'.scan_found]_vars
    /\ []((res.pc = "idle" /\ res.result = "ok") =>
            \A p \in res.lost : p \in db.scan_found \/ TrackAt(db, p) = {})

\* scan() has returned; the first try to flush the full batch could not
\* begin, the batch was kept and flushed again with the next path, that
\* commit failed, and the tracks of all those files are gone
C31_Witness ==
    /\ res.pc = "idle" /\ res.result = "ok"
    /\ Cardinality(res.kept) = BATCH_SIZE * 5
    /\ res.kept \subseteq res.lost
    /\ \A p \in res.kept : TrackAt(db, p) = {}

\* C31 as stated: every track of a batch whose commit failed is removed by
\* the end-of-scan deletion
C31_LostBatchDeleted ==
    (res.pc = "idle" /\ res.result = "ok") =>
        \A p \in res.lost : TrackAt(db, p) = {}


\* the scan that has returned saw the files as they are now
ScanSawFiles == Idle /\ hist.result # "none" /\ hist.log = <<>>

\* the files WalkDir reports as errors
Unreadable == {p \in Paths : fs[p].content = "denied"}

\* C32: when a scan during which part of a root could not be read has
\* returned, and no file made the consumer panic, it returned Ok, no path
\* of the unreadable part is recorded as found and no track row has such a
\* path.
C32_UnreadableSubtree ==
    (ScanSawFiles /\ Unreadable # {} /\ NoIndexPanic)
    => /\ hist.result = "ok"
       /\ \A p \in Unreadable : p \notin db.scan_found /\ TrackAt(db, p) = {}

\* a file that was catalogued lies in a part that has become unreadable;
\* the scan returned Ok, the file's row is gone and the row of a readable
\* file is still there
C32_Witness ==
    /\ ScanSawFiles /\ hist.result = "ok"
    /\ \E p \in Unreadable : InLibrary(p) /\ TrackAt(hist.before, p) # {}
                             /\ TrackAt(db, p) = {}
    /\ \E q \in Paths \ Unreadable : TrackAt(db, q) # {}

\* the catalogued files whose mtime differs from that of their track row
\* when the scan began
Rewritten ==
    {p \in Paths : Present(fs[p]) /\ Readable(fs[p])
                   /\ \E t \in TrackAt(hist.before, p) : t.mtime # fs[p].mtime}

\* the roots the last scan walked that hold p
WalkedFrom(p) == {r \in hist.before.library_roots : p \in Under(r)}

\* the roots in whose walk the album of p could not be resolved
AlbumFailedIn(p) == {r \in Roots : <<hist.scans, p, r>> \in res}

\* C33: when a scan that returned Ok saw a catalogued file with a changed
\* mtime that parse_metadata rejects, or whose album could not be resolved
\* in the walk of every root that holds it, the path is not recorded as
\* found and the file has no track row.
C33_FailedRescanDeletes ==
    (ScanSawFiles /\ hist.result = "ok")
    => \A p \in Rewritten :
          (\/ ~Content(fs[p].content).ok
           \/ (WalkedFrom(p) # {} /\ WalkedFrom(p) \subseteq AlbumFailedIn(p)))
          => p \notin db.scan_found /\ TrackAt(db, p) = {}

\* a scan saw one rewritten file that cannot be parsed and one whose album
\* could not be resolved, and both rows are gone
C33_Witness ==
    /\ ScanSawFiles /\ hist.result = "ok"
    /\ \E p \in Rewritten : /\ InLibrary(p) /\ ~Content(fs[p].content).ok
                            /\ TrackAt(db, p) = {}
    /\ \E q \in Rewritten : /\ Content(fs[q].content).ok
                            /\ AlbumFailedIn(q) # {}
                            /\ TrackAt(db, q) = {}

\* C33 as stated: one failure to resolve the album of a rewritten file is
\* enough for its path not to be found and its row to be deleted
C33_AnyAlbumFailureDeletes ==
    (ScanSawFiles /\ hist.result = "ok")
    => \A p \in Rewritten :
          AlbumFailedIn(p) # {}
          => p \notin db.scan_found /\ TrackAt(db, p) = {}


\* the artists and albums no track row refers to
ArtistsWithoutTracks ==
    {a \in db.artists : /\ \A t \in db.tracks : t.artist_id # a.id
                        /\ \A l \in db.track_artists : l[2] # a.id}

AlbumsWithoutTracks ==
    {al \in db.albums : \A t \in db.tracks : t.album_id # al.id}

\* C34: no step of a scan removes an artist row, an album row or an
\* album_artists link: the three tables only grow.
C34_ArtistsAlbumsOnlyGrow ==
    [][/\ db.artists \subseteq db'.artists
       /\ db.albums \subseteq db'.albums
       /\ db.album_artists \subseteq db'.album_artists]_vars

\* the last file of an artist and an album was removed from disk and a scan
\* that returned Ok deleted its track: the artist, the album and their
\* link remain, without a track
C34_Witness ==
    /\ Idle /\ hist.result = "ok"
    /\ \E al \in AlbumsWithoutTracks : \E a \in ArtistsWithoutTracks :
          /\ al.artist_id = a.id
          /\ \E t \in hist.before.tracks : t.album_id = al.id /\ t.artist_id = a.id
          /\ <<al.id, a.id>> \in db.album_artists


\* C35: after a scan that returned Ok, every album row is among the albums
\* that get_artist_albums returns for the album's primary artist.
C35_PrimaryArtistLinked ==
    (Idle /\ hist.result = "ok")
    => \A al \in db.albums : al \in get_artist_albums(db, al.artist_id)


\* C36: current_index is None or an index of tracks, and no operation has
\* indexed tracks out of bounds.
C36_IndexValid ==
    /\ res.q.current_index = NoIndex \/ res.q.current_index < Len(res.q.tracks)
    /\ res.panic # "index"

\* C37: while shuffle is on shuffled_indices is a permutation of the
\* indices of tracks, and while it is off shuffled_indices is empty.
C37_ShuffleIsPermutation ==
    IF res.q.shuffle
    THEN res.q.shuffled_indices \in Shuffles(Len(res.q.tracks))
    ELSE res.q.shuffled_indices = <<>>

\* C38: when add_next(t) was called beside a current track and next() is
\* the next operation, next() makes t the current track.
C38_AddNextPlaysNext ==
    [][(res.added_next # NoIndex /\ res'.by_next)
       => res'.q.current_index = res.added_next]_vars


\* C39: once every concurrent call has completed, the track last loaded
\* into the player is tracks[current_index].
C39_PlayerAgreesWithQueue ==
    (\A i \in 1..QueueCallers : res.task[i].pc = "done")
    => /\ res.q.current_index # NoIndex
       /\ res.player = Nth(res.q.tracks, res.q.current_index).id


(***************************************************************************)
(* Properties of the cover art store.                                      *)
(***************************************************************************)
\* the embedded picture of the file at p, as the last scan read it
PictureOf(p) == parse_metadata(p, fs[p]).cover_image

\* the album row was created by the running (or last) scan
NewAlbum(id) == \A al \in hist.before.albums : al.id # id

\* the album rows of two tracks
AlbumsOf(t1, t2) == {al \in db.albums : al.id \in {t1.album_id, t2.album_id}}

AllReturned == \A i \in Callers : At(i, "done")

\* no caller asks for another spelling of this name
OnlySpelling(name) ==
    \A j \in Callers : EqNoCase(res[j].name, name) => res[j].name = name

\* C6: when the callers that race for a new name all pass the same name, one
\* artist row with that name exists once they have returned, and each of
\* them returned its id.
C6_ArtistGetOrCreate ==
    AllReturned
    => \A i \in Callers : OnlySpelling(res[i].name)
         => /\ Cardinality(SelectArtist(db, res[i].name)) = 1
            /\ \A a \in SelectArtist(db, res[i].name) :
                 a.name = res[i].name /\ res[i].artist_id = a.id

\* two callers passed the same name and one of them lost the insert
C6_Witness ==
    /\ AllReturned
    /\ \E i, j \in Callers :
         /\ i # j /\ res[i].name = res[j].name
         /\ OnlySpelling(res[i].name)
         /\ res[j].artist_raced

\* C7: no two artist rows have names that are equal ignoring case, and
\* callers whose names differ only in case return the same id.
C7_CaseInsensitiveIdentity ==
    /\ \A a1, a2 \in db.artists : EqNoCase(a1.name, a2.name) => a1 = a2
    /\ AllReturned
       => \A i, j \in Callers :
            EqNoCase(res[i].name, res[j].name) => res[i].artist_id = res[j].artist_id

\* C8: there is one album row per (title, artist_id); once the callers have
\* returned, each returned the id of the row of its key, so callers with the
\* same key agree and callers whose primary artists differ got distinct rows.
C8_AlbumGetOrCreate ==
    /\ \A a1, a2 \in db.albums :
         (a1.title = a2.title /\ a1.artist_id = a2.artist_id) => a1 = a2
    /\ AllReturned
       => \A i \in Callers :
            /\ SelectAlbum(db, res[i].title, res[i].artist_id) # {}
            /\ \A al \in SelectAlbum(db, res[i].title, res[i].artist_id) :
                 al.id = res[i].album_id
            /\ \A j \in Callers :
                 (res[i].title = res[j].title /\ res[i].artist_id # res[j].artist_id)
                 => res[i].album_id # res[j].album_id

\* two callers had the same key and one of them lost the insert
C8_Witness ==
    /\ AllReturned
    /\ \E i, j \in Callers :
         /\ i # j /\ res[i].title = res[j].title
         /\ res[i].artist_id = res[j].artist_id
         /\ res[j].album_raced

=============================================================================
